---- MODULE Spec2Model ----
(***************************************************************************)
(* Verification model of the hazard engine of openquake:                   *)
(*   - context collapsing (hazardlib/contexts.py: combine_pmf, _collapse,  *)
(*     ContextMaker.collapse_the_ctxs),                                    *)
(*   - context building (ContextMaker.filter, make_contexts, make_ctxs),   *)
(*   - probability composition (PmapMaker).                                *)
(*                                                                         *)
(* Probabilities are float64 in the program; here they are exact rationals *)
(* <<numerator, denominator>> in lowest terms, so that equalities which    *)
(* the program states "within floating-point tolerance" are exact.         *)
(* Distances are integers counting half kilometres.                        *)
(***************************************************************************)
EXTENDS Integers, Sequences, FiniteSets, TLC

VARIABLES
    \* ---- the collapse functions: inputs and results
    cpc,        \* position: "idle", "input", "collapsed", "combined"
    cctxs,      \* the list of contexts given to _collapse
    cpoe,       \* the conditional poe given to compose(), in units of 1/PoeDen
    cout,       \* the list returned by _collapse
    pmfs,       \* the three PMFs given to combine_pmf
    comb,       \* the results of combine_pmf on them
    \* ---- ContextMaker: building the contexts of a list of ruptures
    kpc,        \* position: "idle", "input", "done", "ValueError"
    kcfg,       \* the ContextMaker: REQUIRES_DISTANCES, REQUIRES_RUPTURE_PARAMETERS
    krups,      \* the ruptures given to make_ctxs
    ki,         \* the index of the rupture of the last single call
    kctxs,      \* the contexts returned by make_ctxs
    klast,      \* the last call of filter / make_contexts and its outcome
    \* ---- PmapMaker: one source group folded into a probability map
    ppc,        \* position: "idle", "new", "loop", "done"
    pcfg,       \* the flags of the group and of the ContextMaker
    psrcs,      \* the sources of the group
    pi,         \* the index of the next unit of work of the loop
    pmap,       \* self.pmap
    presult,    \* the map returned by make()
    calc_times, \* src_id -> <<numrups, numsites>>
    rupdata,    \* the contexts retained in few-sites mode
    pmade,      \* history: per source unit, the contexts built before collapsing
    pfolded,    \* history: per source unit, the contexts folded by _update_pmap
    \* ---- classical_split_filter: one task splitting its sources in blocks
    tpc,        \* position: "idle", "input", "loop", "done"
    tparams,    \* params: min_weight, max_weight, split_sources
    tsrcs,      \* srcs, the sources given to the task
    tsources,   \* sources, the list given to block_splitter
    tblocks,    \* blocks
    ti,         \* the index of the next block of the loop over blocks[:-1]
    theavy,     \* heavy, the weights of the subtasks produced
    tlight,     \* light
    tyielded,   \* what the generator yielded so far, in order
    \* ---- the reducers: task results folded into an accumulator
    rpc,        \* position: "idle", "disagg", "classical", "done"
    rcfg,       \* oqparam: disagg_by_src
    rresults,   \* the results of the tasks, in the order of submission
    rpending,   \* the indices of the results that have not arrived yet
    rkind,      \* the reducer that ran: "disagg" or "classical"
    rorder,     \* the indices of the results in the order of their arrival
    racc,       \* acc, the accumulator
    rself,      \* the calculator: totrups, maxradius, calc_times, by_task
    \* ---- the disaggregation
    dpc,        \* position: "idle", "binning", "accumulate", "done"
    dbins,      \* bins: dist_bins, lon_bins, lat_bins
    dbdata,     \* bdata: the ruptures with dist, lon, lat and pne
    didx,       \* dists_idx, lons_idx, lats_idx
    du,         \* the number of ruptures accumulated
    dmat,       \* mat6D
    epc,        \* position: "idle", "get_edges_shapedic", "disaggregation",
                \* "done"
    eoq,        \* the parameters and the magnitudes and distances
    eedges,     \* the bin edges and the shape
    spc,        \* position of the disaggregation calculator: "idle",
                \* "full_disaggregation", "compute", "post_execute", "done",
                \* "SystemExit", "TypeError"
    soq,        \* oqparam (poes_disagg, iml_disagg) and the sites with
                \* their hazard curves
    ok_sites,   \* self.ok_sites
    slog,       \* the warnings logged, in order
    sresults,   \* the results of compute(): the keys (s, m, k)
    sdisagg,    \* the sites written in datastore['disagg']
    \* ---- the minimum-distance roundup of a context
    upc,        \* position: "idle", "ctx", "once", "twice"
    uheap0,     \* the arrays when the context was built
    uheap,      \* the arrays: data and writeable flag, by identity
    uctx,       \* the context: its class and the array of each attribute
    um,         \* minimum_distance
    uonce,      \* ctx.roundup(m)
    utwice,     \* ctx.roundup(m).roundup(m)
    \* ---- Effect.dist_by_mag
    fpc,        \* position: "idle", "effect", "done"
    feffect,    \* the Effect: effect_by_mag and dists
    fintensity, \* the intensity asked for, in hundredths
    fdst,       \* the dict magstring -> distance returned
    \* ---- the pmf extractors of hazardlib.calc.disagg
    mpc,        \* position: "idle", "matrix", "done"
    mmatrix0,   \* the matrix returned by disaggregation()
    mmatrix,    \* the matrix the extractor was given
    mname,      \* the key of pmf_map
    mout,       \* the array the extractor returned
    \* ---- the arrays of a context and their flags
    wpc,        \* position: "idle", "rupture", "done"
    wcmaker,    \* the ContextMaker
    wrup,       \* the rupture
    wctx,       \* the outcome of make_ctxs for the rupture: the error or
                \* the distance arrays attached to the context
    \* ---- the magnitude bin of a rupture
    gpc,        \* position: "idle", "rups", "grouped", "computed"
    gmags,      \* the magnitudes of the ruptures
    gbins,      \* mag_bins, the magnitude edges
    ggroups,    \* the groups of _magbin_groups, or its IndexError
    gmagstr,    \* the magnitude given to compute_disagg
    gmagi,      \* the magi of compute_disagg
    \* ---- the temporal occurrence model in disaggregation()
    opc,        \* position: "idle", "contexts", "disaggregate", "done"
    osrcs,      \* by_trt: the sources of each tectonic region type
    opoe,       \* the probability of exceedance given a rupture
    otom,       \* RuptureContext.temporal_occurrence_model, the class field
    orups,      \* rups: the contexts of each tectonic region type
    obdata,     \* the no-exceedance probabilities of the contexts, by TRT
    oi,         \* the tectonic region types done in the current loop
    \* ---- the epsilon bands of the disaggregation
    bpc,        \* position: "idle", "levels", "done"
    btn,        \* the truncated normal: n_epsilons and its cdf
    blvls,      \* the standardized levels, one per rupture
    bres        \* the contributions of _disagg_eps, by epsilon band

cvars == <<cpc, cctxs, cpoe, cout, pmfs, comb>>
kvars == <<kpc, kcfg, krups, ki, kctxs, klast>>
pvars == <<ppc, pcfg, psrcs, pi, pmap, presult, calc_times, rupdata, pmade, pfolded>>
tvars == <<tpc, tparams, tsrcs, tsources, tblocks, ti, theavy, tlight, tyielded>>
\* the calculators above the hazard library
rvars == <<rpc, rcfg, rresults, rpending, rkind, rorder, racc, rself>>
svars == <<spc, soq, ok_sites, slog, sresults, sdisagg>>
dvars == <<dpc, dbins, dbdata, didx, du, dmat, epc, eoq, eedges, svars>>
xvars == <<tvars, rvars, dvars>>
uvars == <<upc, uheap0, uheap, uctx, um, uonce, utwice>>
fvars == <<fpc, feffect, fintensity, fdst>>
mvars == <<mpc, mmatrix0, mmatrix, mname, mout>>
wvars == <<wpc, wcmaker, wrup, wctx>>
gvars == <<gpc, gmags, gbins, ggroups, gmagstr, gmagi>>
ovars == <<opc, osrcs, opoe, otom, orups, obdata, oi>>
bvars == <<bpc, btn, blvls, bres>>
\* the functions of the library checked on their own
zvars == <<uvars, fvars, mvars, wvars, gvars, ovars, bvars>>
uothers == <<fvars, mvars, wvars, gvars, ovars, bvars>>
fothers == <<uvars, mvars, wvars, gvars, ovars, bvars>>
mothers == <<uvars, fvars, wvars, gvars, ovars, bvars>>
wothers == <<uvars, fvars, mvars, gvars, ovars, bvars>>
gothers == <<uvars, fvars, mvars, wvars, ovars, bvars>>
oothers == <<uvars, fvars, mvars, wvars, gvars, bvars>>
bothers == <<uvars, fvars, mvars, wvars, gvars, ovars>>
vars == <<cvars, kvars, pvars, xvars, zvars>>

-----------------------------------------------------------------------------
(* Bounds of the model *)

\* longest list of contexts given to _collapse
MaxCtxs == 3
\* longest PMF given to combine_pmf
MaxPmfLen == 2

-----------------------------------------------------------------------------
(* Exact arithmetic on probabilities *)

Abs(n) == IF n < 0 THEN -n ELSE n

RECURSIVE GCD(_, _)
GCD(a, b) == IF b = 0 THEN a ELSE GCD(b, a % b)

\* the rational n/d (d > 0) in lowest terms
Rat(n, d) == LET g == GCD(Abs(n), d) IN <<n \div g, d \div g>>

RZero == <<0, 1>>
ROne == <<1, 1>>
RAdd(x, y) ==
    LET g == GCD(x[2], y[2])
    IN Rat(x[1] * (y[2] \div g) + y[1] * (x[2] \div g), (x[2] \div g) * y[2])
RSub(x, y) == RAdd(x, <<-y[1], y[2]>>)
RMul(x, y) == Rat(x[1] * y[1], x[2] * y[2])
RLe(x, y) == x[1] * y[2] <= y[1] * x[2]

RECURSIVE RPow(_, _)
RPow(x, k) == IF k = 0 THEN ROne ELSE RMul(x, RPow(x, k - 1))

\* numpy.prod / sum of a sequence of probabilities
RECURSIVE RProd(_)
RProd(s) == IF s = <<>> THEN ROne ELSE RMul(Head(s), RProd(Tail(s)))

RECURSIVE RSum(_)
RSum(s) == IF s = <<>> THEN RZero ELSE RAdd(Head(s), RSum(Tail(s)))

\* numpy.clip(x, 0., 1.)
Clip01(x) == IF RLe(x, RZero) THEN RZero ELSE IF RLe(ROne, x) THEN ROne ELSE x

In01(x) == RLe(RZero, x) /\ RLe(x, ROne)

\* Body(v) with v evaluated once, however often Body refers to it
Let(v, Body(_)) == CHOOSE r \in {Body(x) : x \in {v}} : TRUE

\* the largest and the smallest element of a set of numbers
SetMax(S) == CHOOSE x \in S : \A y \in S : y <= x
SetMin(S) == CHOOSE x \in S : \A y \in S : x <= y

\* Python's None
None == [none |-> TRUE]

\* the sequences of length 0..n over S
SeqUpTo(S, n) == UNION {[1..k -> S] : k \in 0..n}

-----------------------------------------------------------------------------
(* Contexts and the collapse functions (hazardlib/contexts.py) *)

\* occurrence_rate of a nonparametric context: numpy.nan
NaN == -1
isnan(x) == x = NaN

\* the occurrence rates of the parametric contexts, in units of 0.001
Rates == {1, 2}
\* conditional poes are k/PoeDen, k in 0..PoeDen
PoeDen == 2
Poes == 0..PoeDen

\* PoissonTOM.get_probability_no_exceedance(rate, poes) is
\* exp(-rate * time_span * poes); the rate unit and the time span are such
\* that exp(-unit * time_span / PoeDen) = 1/2, which keeps the exponential
\* exact on the grid of rates and poes.
TomBase == <<1, 2>>
tom_get_probability_no_exceedance(occurrence_rate, poe) ==
    RPow(TomBase, occurrence_rate * poe)

\* RuptureContext.get_probability_no_exceedance, poe in units of 1/PoeDen
get_probability_no_exceedance(ctx, poe) ==
    IF isnan(ctx.occurrence_rate)
    THEN LET q == RSub(ROne, Rat(poe, PoeDen))
             terms == [i \in 1..Len(ctx.probs_occur) |->
                          RMul(ctx.probs_occur[i], RPow(q, i - 1))]
         IN Clip01(RSum(terms))
    ELSE tom_get_probability_no_exceedance(ctx.occurrence_rate, poe)

\* combine_pmf: the double loop  o[i + j] += o1[i] * o2[j]
RECURSIVE combine_loop(_, _, _, _, _)
combine_loop(o1, o2, o, i, j) ==
    IF i > Len(o1) THEN o
    ELSE IF j > Len(o2) THEN combine_loop(o1, o2, o, i + 1, 1)
    ELSE combine_loop(o1, o2,
             [o EXCEPT ![i + j - 1] = RAdd(@, RMul(o1[i], o2[j]))], i, j + 1)

RECURSIVE combine_loop_assign(_, _, _, _, _)
combine_loop_assign(o1, o2, o, i, j) ==
    IF i > Len(o1) THEN o
    ELSE IF j > Len(o2) THEN combine_loop_assign(o1, o2, o, i + 1, 1)
    ELSE combine_loop_assign(o1, o2,
             [o EXCEPT ![i + j - 1] = RMul(o1[i], o2[j])], i, j + 1)

combine_pmf_assign(o1, o2) ==
    \* a plausible slip: o[i + j] = o1[i] * o2[j] instead of +=
    combine_loop_assign(o1, o2,
        [k \in 1..(Len(o1) + Len(o2) - 1) |-> RZero], 1, 1)

combine_pmf_long(o1, o2) ==
    \* a plausible slip: the length n1 + n2 of the docstring
    combine_loop(o1, o2, [k \in 1..(Len(o1) + Len(o2)) |-> RZero], 1, 1)

combine_pmf(o1, o2) ==
    LET n1 == Len(o1)
        n2 == Len(o2)
        o == [k \in 1..(n1 + n2 - 1) |-> RZero]
    IN combine_loop(o1, o2, o, 1, 1)

\* functools.reduce(combine_pmf, seq)
RECURSIVE reduce_combine_pmf(_)
reduce_combine_pmf(seq) ==
    IF Len(seq) = 1 THEN seq[1]
    ELSE combine_pmf(reduce_combine_pmf(SubSeq(seq, 1, Len(seq) - 1)),
                     seq[Len(seq)])

\* sum(r.occurrence_rate for r in prups)
RECURSIVE sum_rates(_)
sum_rates(prups) ==
    IF prups = <<>> THEN 0
    ELSE Head(prups).occurrence_rate + sum_rates(Tail(prups))

IsParam(ctx) == ~isnan(ctx.occurrence_rate)
IsNonParam(ctx) == isnan(ctx.occurrence_rate)

_collapse_keep_first(ctxs) ==
    \* a plausible slip: the merged context keeps the rate / PMF of the first
    IF Len(ctxs) < 2 THEN ctxs
    ELSE LET prups == SelectSeq(ctxs, IsParam)
             nrups == SelectSeq(ctxs, IsNonParam)
         IN (IF Len(prups) > 1 THEN <<prups[1]>> ELSE prups)
            \o (IF Len(nrups) > 1 THEN <<nrups[1]>> ELSE nrups)

_collapse_drop_nonparam(ctxs) ==
    \* a plausible slip: the nonparametric branch is an elif of the
    \* parametric one, so that it is lost when parametric members exist
    IF Len(ctxs) < 2 THEN ctxs
    ELSE LET prups == SelectSeq(ctxs, IsParam)
             nrups == SelectSeq(ctxs, IsNonParam)
         IN IF Len(prups) > 1
            THEN <<[prups[1] EXCEPT !.occurrence_rate = sum_rates(prups)]>>
            ELSE prups \o
                 (IF Len(nrups) > 1
                  THEN <<[nrups[1] EXCEPT
                            !.probs_occur = reduce_combine_pmf(
                                [i \in 1..Len(nrups) |->
                                   nrups[i].probs_occur])]>>
                  ELSE nrups)

_collapse(ctxs) ==
    IF Len(ctxs) < 2 THEN ctxs
    ELSE LET prups == SelectSeq(ctxs, IsParam)
             nrups == SelectSeq(ctxs, IsNonParam)
             pout == IF Len(prups) > 1
                     THEN <<[prups[1] EXCEPT
                               !.occurrence_rate = sum_rates(prups)]>>
                     ELSE prups
             nout == IF Len(nrups) > 1
                     THEN <<[nrups[1] EXCEPT
                               !.probs_occur = reduce_combine_pmf(
                                   [i \in 1..Len(nrups) |->
                                      nrups[i].probs_occur])]>>
                     ELSE nrups
         IN pout \o nout

\* compose() of the collapse tests: (1 - prod(pnes))
compose(ctxs, poe) ==
    RSub(ROne, RProd([i \in 1..Len(ctxs) |->
                        get_probability_no_exceedance(ctxs[i], poe)]))

-----------------------------------------------------------------------------
(* The collapse functions on drawn inputs *)

\* PMFs are given in units of 1/PmfDen
PmfDen == 4
IsPmf(units) == RSum([i \in 1..Len(units) |-> Rat(units[i], PmfDen)]) = ROne
PmfSet ==
    {[i \in 1..Len(u) |-> Rat(u[i], PmfDen)] :
        u \in {v \in SeqUpTo(0..PmfDen, MaxPmfLen) : Len(v) >= 1 /\ IsPmf(v)}}

\* the contexts of the collapse tests: RuptureContext([('occurrence_rate', r)])
\* and RuptureContext([('occurrence_rate', nan), ('probs_occur', p)])
TestPmfs == {<<Rat(3, 4), Rat(1, 4)>>, <<Rat(1, 2), Rat(1, 2)>>,
             <<Rat(1, 2), Rat(1, 4), Rat(1, 4)>>}
TestCtxs ==
    {[occurrence_rate |-> r] : r \in Rates}
    \cup {[occurrence_rate |-> NaN, probs_occur |-> p] : p \in TestPmfs}

NoComb == [ab |-> <<>>, ba |-> <<>>, ab_c |-> <<>>, a_bc |-> <<>>]

CollapseIdle ==
    /\ cpc = "idle" /\ cctxs = <<>> /\ cpoe = 0 /\ cout = <<>>
    /\ pmfs = <<>> /\ comb = NoComb

InitCollapse ==
    \/ /\ cpc = "ctxs"
       /\ cctxs \in SeqUpTo(TestCtxs, MaxCtxs)
       /\ cpoe \in Poes
       /\ cout = <<>> /\ pmfs = <<>> /\ comb = NoComb
    \/ /\ cpc = "pmfs"
       /\ pmfs \in [1..3 -> PmfSet]
       /\ cctxs = <<>> /\ cpoe = 0 /\ cout = <<>> /\ comb = NoComb

\* c2 = _collapse(ctxs), as the collapse tests call it
Collapse ==
    /\ cpc = "ctxs"
    /\ cout' = _collapse(cctxs)
    /\ cpc' = "collapsed"
    /\ UNCHANGED <<cctxs, cpoe, pmfs, comb>>

\* combine_pmf applied to the three PMFs in both orders and both groupings
Combine ==
    /\ cpc = "pmfs"
    /\ comb' = [ab |-> combine_pmf(pmfs[1], pmfs[2]),
                ba |-> combine_pmf(pmfs[2], pmfs[1]),
                ab_c |-> combine_pmf(combine_pmf(pmfs[1], pmfs[2]), pmfs[3]),
                a_bc |-> combine_pmf(pmfs[1], combine_pmf(pmfs[2], pmfs[3]))]
    /\ cpc' = "combined"
    /\ UNCHANGED <<cctxs, cpoe, cout, pmfs>>

-----------------------------------------------------------------------------
(* Sites, ruptures and distances *)

\* The site collection: site ids 1..Len(SitePos), each with a position on a
\* line (in half kilometres) and a vs30 class.
SitePos == <<0, 5>>
SiteVs30 == <<1, 0>>
sitecol == [i \in 1..Len(SitePos) |-> i]

Max(a, b) == IF a >= b THEN a ELSE b
Min(a, b) == IF a <= b THEN a ELSE b

\* A rupture: rup_id, mag, hypocenter position hypo (depth 0), surface
\* ("point": no finite surface, "planar" or "mesh": a finite surface which
\* extends ext on both sides of the hypocenter), occurrence_rate (NaN for a
\* nonparametric rupture), probs_occur, weight.
HasSurface(rupture) == rupture.surface # "point"

\* the distance measures the rupture geometry computes
KnownSurfaceDistances ==
    {"rrup", "rx", "ry0", "rjb", "rhypo", "repi", "rcdpp", "azimuth",
     "azimuth_cp", "closest_point", "gc2t", "gc2u", "rvolc"}

\* rupture.hypocenter.distance_to_mesh(sites)
distance_to_mesh(rupture, sid) == Abs(SitePos[sid] - rupture.hypo)

\* the geometry behind rupture.surface.get_*_distance(sites)
surface_distance(rupture, sid, param) ==
    LET d == distance_to_mesh(rupture, sid)
    IN CASE param \in {"rrup", "rjb"} -> Max(0, d - rupture.ext)
         [] param \in {"rhypo", "repi"} -> d
         [] param = "rx" -> SitePos[sid] - rupture.hypo
         [] OTHER -> 0

\* get_distances(rupture, sites, param): the array of distances, or a
\* ValueError for an unknown measure of a rupture with a finite surface
get_distances(rupture, sites, param) ==
    IF ~HasSurface(rupture)
    THEN [err |-> "", dist |-> [i \in 1..Len(sites) |->
                                   distance_to_mesh(rupture, sites[i])]]
    ELSE IF param \in KnownSurfaceDistances
    THEN [err |-> "", dist |-> [i \in 1..Len(sites) |->
                                   surface_distance(rupture, sites[i], param)]]
    ELSE [err |-> "ValueError", dist |-> <<>>]

\* MagDepDistance.__call__(trt, mag): the maximum distance of a magnitude
maximum_distance(mag) == 2 * mag

\* the rupture parameters make_rctx knows
KnownRuptureParameters ==
    {"mag", "strike", "dip", "rake", "ztor", "zbor", "hypo_lon", "hypo_lat",
     "hypo_depth", "hypo_loc", "width", "apply_directivity", "gc_length",
     "gc2t_hypo", "gc2u_hypo", "gc2t_updip_hypo", "gc2u_updip_hypo"}

rupture_parameter(rupture, param) ==
    CASE param = "mag" -> rupture.mag
      [] param = "hypo_lon" -> rupture.hypo
      [] param = "width" -> 2 * rupture.ext
      [] OTHER -> 0

\* ContextMaker.__init__: the requirement sets of the ground-motion models;
\* a configured equivalent distance adds repi to the required distances
ContextMaker(req_distances, req_rupture_parameters, reqv, collapse_level) ==
    [REQUIRES_DISTANCES |->
         IF reqv THEN req_distances \cup {"repi"} ELSE req_distances,
     REQUIRES_RUPTURE_PARAMETERS |-> req_rupture_parameters,
     REQUIRES_SITES_PARAMETERS |-> {"vs30"},
     reqv |-> reqv,
     collapse_level |-> collapse_level]

\* boolean mask applied to an array
RECURSIVE MaskSeq(_, _)
MaskSeq(seq, mask) ==
    IF seq = <<>> THEN <<>>
    ELSE (IF Head(mask) THEN <<Head(seq)>> ELSE <<>>)
         \o MaskSeq(Tail(seq), Tail(mask))

filter_strict(cmaker, sites, rup) ==
    \* a plausible slip: mask = distances < mdist
    LET distances == get_distances(rup, sites, "rrup").dist
        mdist == maximum_distance(rup.mag)
        mask == [i \in 1..Len(sites) |-> distances[i] < mdist]
    IN IF \E i \in 1..Len(sites) : mask[i]
       THEN [err |-> "", sites |-> MaskSeq(sites, mask),
             dctx |-> [rrup |-> MaskSeq(distances, mask)]]
       ELSE [err |-> "FarAwayRupture", sites |-> <<>>, dctx |-> <<>>]

\* ContextMaker.filter
filter(cmaker, sites, rup) ==
    LET distances == get_distances(rup, sites, "rrup").dist
        mdist == maximum_distance(rup.mag)
        mask == [i \in 1..Len(sites) |-> distances[i] <= mdist]
    IN IF \E i \in 1..Len(sites) : mask[i]
       THEN [err |-> "", sites |-> MaskSeq(sites, mask),
             dctx |-> [rrup |-> MaskSeq(distances, mask)]]
       ELSE [err |-> "FarAwayRupture", sites |-> <<>>, dctx |-> <<>>]

\* ContextMaker.make_rctx: vars(rupture) plus the required rupture parameters
make_rctx(cmaker, rupture) ==
    IF cmaker.REQUIRES_RUPTURE_PARAMETERS \subseteq KnownRuptureParameters
    THEN [err |-> "",
          ctx |-> [rup_id |-> rupture.rup_id,
                   mag |-> rupture.mag,
                   hypo |-> rupture.hypo,
                   surface |-> rupture.surface,
                   ext |-> rupture.ext,
                   occurrence_rate |-> rupture.occurrence_rate,
                   probs_occur |-> rupture.probs_occur,
                   weight |-> rupture.weight,
                   params |-> [par \in cmaker.REQUIRES_RUPTURE_PARAMETERS |->
                                  rupture_parameter(rupture, par)]]]
    ELSE [err |-> "ValueError", ctx |-> <<>>]

\* reqv_obj.get(repi, mag): the equivalent distance of an epicentral distance
reqv_get(repi, mag) == [i \in 1..Len(repi) |-> Max(0, repi[i] - mag)]

\* ContextMaker.make_contexts
make_contexts(cmaker, sites, rupture) ==
    Let(filter(cmaker, sites, rupture), LAMBDA f :
        LET others == cmaker.REQUIRES_DISTANCES \ {"rrup"}
            names == others \cup {"rrup"}
            dctx0 == [par \in names |->
                        IF par = "rrup" THEN f.dctx.rrup
                        ELSE get_distances(rupture, f.sites, par).dist]
            subst == cmaker.reqv /\ rupture.surface = "planar"
            reqv == reqv_get(dctx0["repi"], rupture.mag)
            dctx == [par \in names |->
                        IF subst /\ par \in {"rjb", "rrup"}
                              /\ par \in cmaker.REQUIRES_DISTANCES
                        THEN reqv ELSE dctx0[par]]
        IN IF f.err # "" THEN [err |-> f.err]
           ELSE IF \E par \in others :
                      get_distances(rupture, f.sites, par).err # ""
           THEN [err |-> "ValueError"]
           ELSE Let(make_rctx(cmaker, rupture), LAMBDA rctx :
                    IF rctx.err # "" THEN [err |-> rctx.err]
                    ELSE [err |-> "", ctx |-> rctx.ctx, sites |-> f.sites,
                          dctx |-> dctx]))

\* rup.surface.get_closest_points(sites.complete).lons[sids]
closest_lons(rup, sids) ==
    [i \in 1..Len(sids) |->
        Max(rup.hypo - rup.ext, Min(rup.hypo + rup.ext, SitePos[sids[i]]))]

make_ctx_required_only(cmaker, rup, sites, fewsites) ==
    \* a plausible slip: for par in self.REQUIRES_DISTANCES, without rrup
    Let(make_contexts(cmaker, sites, rup), LAMBDA mc :
        IF mc.err # "" THEN [err |-> mc.err]
        ELSE [err |-> "",
              ctx |-> mc.ctx @@
                  [sids |-> mc.sites,
                   vs30 |-> [i \in 1..Len(mc.sites) |->
                               SiteVs30[mc.sites[i]]],
                   dist |-> [par \in cmaker.REQUIRES_DISTANCES
                               |-> mc.dctx[par]],
                   clon |-> IF fewsites THEN closest_lons(rup, mc.sites)
                            ELSE <<>>,
                   src_id |-> 0]])

\* one iteration of the loop of ContextMaker.make_ctxs
make_ctx(cmaker, rup, sites, fewsites) ==
    Let(make_contexts(cmaker, sites, rup), LAMBDA mc :
        IF mc.err # "" THEN [err |-> mc.err]
        ELSE [err |-> "",
              ctx |-> mc.ctx @@
                  [sids |-> mc.sites,
                   vs30 |-> [i \in 1..Len(mc.sites) |->
                               SiteVs30[mc.sites[i]]],
                   dist |-> [par \in cmaker.REQUIRES_DISTANCES \cup {"rrup"}
                               |-> mc.dctx[par]],
                   clon |-> IF fewsites THEN closest_lons(rup, mc.sites)
                            ELSE <<>>,
                   src_id |-> 0]])

RECURSIVE make_ctxs_stop_from(_, _, _, _, _, _)
make_ctxs_stop_from(cmaker, ruptures, sites, fewsites, i, ctxs) ==
    IF i > Len(ruptures) THEN [err |-> "", ctxs |-> ctxs]
    ELSE Let(make_ctx(cmaker, ruptures[i], sites, fewsites), LAMBDA out :
             IF out.err = "FarAwayRupture"
             THEN [err |-> "", ctxs |-> ctxs]
             ELSE IF out.err # ""
             THEN [err |-> out.err, ctxs |-> ctxs]
             ELSE make_ctxs_stop_from(cmaker, ruptures, sites, fewsites, i + 1,
                      Append(ctxs, out.ctx)))

make_ctxs_stop(cmaker, ruptures, sites, fewsites) ==
    \* a plausible slip: break instead of continue on FarAwayRupture
    make_ctxs_stop_from(cmaker, ruptures, sites, fewsites, 1, <<>>)

\* ContextMaker.make_ctxs: the contexts of the ruptures with surviving
\* sites, or the ValueError of the first rupture that raises one
RECURSIVE make_ctxs_from(_, _, _, _, _, _)
make_ctxs_from(cmaker, ruptures, sites, fewsites, i, ctxs) ==
    IF i > Len(ruptures) THEN [err |-> "", ctxs |-> ctxs]
    ELSE Let(make_ctx(cmaker, ruptures[i], sites, fewsites), LAMBDA out :
             IF out.err = "FarAwayRupture"
             THEN make_ctxs_from(cmaker, ruptures, sites, fewsites, i + 1, ctxs)
             ELSE IF out.err # ""
             THEN [err |-> out.err, ctxs |-> ctxs]
             ELSE make_ctxs_from(cmaker, ruptures, sites, fewsites, i + 1,
                      Append(ctxs, out.ctx)))

make_ctxs(cmaker, ruptures, sites, fewsites) ==
    make_ctxs_from(cmaker, ruptures, sites, fewsites, 1, <<>>)

-----------------------------------------------------------------------------
(* Collapsing the contexts of a source (ContextMaker.collapse_the_ctxs) *)

\* numpy.round(x, 0) of a distance x given in half kilometres: halves are
\* rounded to the even kilometre
round0(d) ==
    IF d % 2 = 0 THEN d
    ELSE LET k == d \div 2 IN IF k % 2 = 0 THEN 2 * k ELSE 2 * (k + 1)
\* numpy.round(x, rnd): one decimal keeps every half kilometre
np_round(d, rnd) == IF rnd = 0 THEN round0(d) ELSE d

\* the iteration order of the requirement sets
NameOrder ==
    <<"mag", "rake", "foo", "rrup", "rjb", "repi", "rx", "rfoo">>
SetToSeq(S) == SelectSeq(NameOrder, LAMBDA n : n \in S)

RECURSIVE Flatten(_)
Flatten(seqs) == IF seqs = <<>> THEN <<>> ELSE Head(seqs) \o Flatten(Tail(seqs))

\* params(ctx): the grouping key of collapse_the_ctxs
params(cmaker, ctx) ==
    LET hack == cmaker.collapse_level >= 3
        rrp == IF hack THEN <<"mag">>
               ELSE SetToSeq(cmaker.REQUIRES_RUPTURE_PARAMETERS)
        rnd == IF hack THEN 0 ELSE 1
        dsts == SetToSeq(cmaker.REQUIRES_DISTANCES)
    IN [i \in 1..Len(rrp) |->
           IF hack THEN ctx.mag ELSE ctx.params[rrp[i]]]
       \o Flatten([k \in 1..Len(dsts) |->
              [i \in 1..Len(ctx.dist[dsts[k]]) |->
                  np_round(ctx.dist[dsts[k]][i], rnd)]])

\* the order of Python tuples
RECURSIVE LexLess(_, _)
LexLess(a, b) ==
    IF a = <<>> THEN b # <<>>
    ELSE IF b = <<>> THEN FALSE
    ELSE IF Head(a) # Head(b) THEN Head(a) < Head(b)
    ELSE LexLess(Tail(a), Tail(b))

RECURSIVE SortKeys(_)
SortKeys(K) ==
    IF K = {} THEN <<>>
    ELSE LET m == CHOOSE k \in K : \A o \in K \ {k} : LexLess(k, o)
         IN <<m>> \o SortKeys(K \ {m})

\* baselib.general.groupby(objects, key): the groups, in the order of the keys
groupby(objects, keys) ==
    LET sorted == SortKeys({keys[i] : i \in 1..Len(objects)})
    IN [g \in 1..Len(sorted) |->
          LET idx == SelectSeq([i \in 1..Len(objects) |-> i],
                               LAMBDA i : keys[i] = sorted[g])
          IN [n \in 1..Len(idx) |-> objects[idx[n]]]]

collapse_the_ctxs_by_sids(cmaker, ctxs) ==
    \* the grouping key extended with the site ids of the context
    IF Len(ctxs) = 1 THEN ctxs
    ELSE Let([i \in 1..Len(ctxs) |-> params(cmaker, ctxs[i]) \o ctxs[i].sids],
             LAMBDA keys :
                 Let(groupby(ctxs, keys), LAMBDA groups :
                     Flatten([g \in 1..Len(groups) |-> _collapse(groups[g])])))

\* ContextMaker.collapse_the_ctxs
collapse_the_ctxs(cmaker, ctxs) ==
    IF Len(ctxs) = 1 THEN ctxs
    ELSE Let([i \in 1..Len(ctxs) |-> params(cmaker, ctxs[i])],
             LAMBDA keys :
                 Let(groupby(ctxs, keys), LAMBDA groups :
                     Flatten([g \in 1..Len(groups) |-> _collapse(groups[g])])))

-----------------------------------------------------------------------------
(* Probability maps and their composition (PmapMaker) *)

\* ProbabilityMap: a function from the site ids that got a contribution to a
\* probability (one intensity level, one ground-motion model)
EmptyPmap == <<>>
\* pmap.setdefault(sid, value)
setdefault(probmap, sid, value) ==
    IF sid \in DOMAIN probmap THEN probmap
    ELSE [s \in DOMAIN probmap \cup {sid} |->
             IF s = sid THEN value ELSE probmap[s]]
\* ~pmap
invert(probmap) == [s \in DOMAIN probmap |-> RSub(ROne, probmap[s])]
\* pmap * scalar
scale(probmap, w) == [s \in DOMAIN probmap |-> RMul(probmap[s], w)]
\* pmap += other
iadd(probmap, other) ==
    [s \in DOMAIN probmap \cup DOMAIN other |->
        IF s \in DOMAIN probmap /\ s \in DOMAIN other
        THEN RAdd(probmap[s], other[s])
        ELSE IF s \in DOMAIN probmap THEN probmap[s] ELSE other[s]]

\* gsim.get_poes for the i-th site of a context: the conditional poe grows
\* with the magnitude and the softness of the site and decays with the
\* distance (in units of 1/PoeDen)
gsim_get_poes(ctx, i) ==
    Max(0, Min(PoeDen, ctx.mag + ctx.vs30[i] - ctx.dist["rrup"][i]))

\* ContextMaker.gen_ctx_poes: pairs (ctx, poes)
gen_ctx_poes(ctxs) ==
    [j \in 1..Len(ctxs) |->
        [ctx |-> ctxs[j],
         poes |-> [i \in 1..Len(ctxs[j].sids) |-> gsim_get_poes(ctxs[j], i)]]]

\* baselib.general.block_splitter(items, max_weight, weight): consecutive
\* blocks, a new one being started when the next item would exceed
\* max_weight; weights[i] is weight(items[i])
RECURSIVE block_split(_, _, _, _, _, _, _)
block_split(items, max_weight, weights, i, ws, tot, blocks) ==
    IF i > Len(items)
    THEN IF ws = <<>> THEN blocks ELSE Append(blocks, ws)
    ELSE IF tot + weights[i] > max_weight
    THEN block_split(items, max_weight, weights, i + 1, <<items[i]>>,
                     weights[i],
                     IF ws = <<>> THEN blocks ELSE Append(blocks, ws))
    ELSE block_split(items, max_weight, weights, i + 1,
                     Append(ws, items[i]), tot + weights[i], blocks)
block_splitter(items, max_weight, weights) ==
    block_split(items, max_weight, weights, 1, <<>>, 0, <<>>)

\* PmapMaker.maxsites = 512000 / len(gsims) / len(imtls.array)
maxsites == 512000

\* the loop over zip(ctx.sids, pnes) of _update_pmap
RECURSIVE update_sites(_, _, _, _, _)
update_sites(rup_indep, probmap, ctx, poes, i) ==
    IF i > Len(ctx.sids) THEN probmap
    ELSE Let(get_probability_no_exceedance(ctx, poes[i]), LAMBDA pne :
         Let(setdefault(probmap, ctx.sids[i], IF rup_indep THEN ROne ELSE RZero),
             LAMBDA pm :
                 update_sites(rup_indep,
                     [pm EXCEPT ![ctx.sids[i]] =
                         IF rup_indep THEN RMul(@, pne)
                         ELSE RAdd(@, RMul(RSub(ROne, pne), ctx.weight))],
                     ctx, poes, i + 1)))

RECURSIVE update_ctxs(_, _, _, _)
update_ctxs(rup_indep, probmap, pairs, j) ==
    IF j > Len(pairs) THEN probmap
    ELSE update_ctxs(rup_indep,
             update_sites(rup_indep, probmap, pairs[j].ctx, pairs[j].poes, 1),
             pairs, j + 1)

RECURSIVE update_blocks(_, _, _, _)
update_blocks(rup_indep, probmap, blocks, b) ==
    IF b > Len(blocks) THEN probmap
    ELSE update_blocks(rup_indep,
             update_ctxs(rup_indep, probmap, gen_ctx_poes(blocks[b]), 1),
             blocks, b + 1)

\* lambda ctx: len(ctx.sids) on each context
NumSites(ctxs) == [n \in 1..Len(ctxs) |-> Len(ctxs[n].sids)]

_update_pmap_always_indep(rup_indep, ctxs, probmap) ==
    \* a plausible slip: the rupture rule of the group is ignored
    update_blocks(TRUE, probmap, block_splitter(ctxs, maxsites, NumSites(ctxs)), 1)

\* PmapMaker._update_pmap
_update_pmap(rup_indep, ctxs, probmap) ==
    update_blocks(rup_indep, probmap,
                  block_splitter(ctxs, maxsites, NumSites(ctxs)), 1)

-----------------------------------------------------------------------------
(* ContextMaker on drawn ruptures *)

\* longest list of ruptures given to make_ctxs
MaxKRups == 2

MkRup(surface, hypo, ext, mag, rate, probs) ==
    [rup_id |-> 0, mag |-> mag, hypo |-> hypo, surface |-> surface,
     ext |-> ext, occurrence_rate |-> rate, probs_occur |-> probs,
     weight |-> <<>>]

\* ruptures around the two sites: with a site exactly at the threshold and
\* the other one unit beyond it, with both sites kept, with a finite
\* surface, and too far from every site
KRupPool ==
    {MkRup("point", 2, 0, 1, 1, <<>>),
     MkRup("point", 1, 0, 2, 1, <<>>),
     MkRup("planar", 6, 1, 2, 1, <<>>),
     MkRup("mesh", 3, 1, 1, 1, <<>>),
     MkRup("point", 9, 0, 1, 1, <<>>),
     MkRup("mesh", 12, 1, 2, 1, <<>>)}

\* the requirement sets of the ground-motion models; rfoo and foo are names
\* that neither get_distances nor make_rctx know
ReqDistances ==
    {{"rrup"}, {"rjb"}, {"rrup", "rjb"}, {"repi", "rx"}, {}, {"rrup", "rfoo"}}
ReqRuptureParameters == {{"mag"}, {"mag", "rake"}, {"mag", "foo"}}

WithRupIds(rups) == [i \in 1..Len(rups) |-> [rups[i] EXCEPT !.rup_id = i]]

InitCtx ==
    /\ kpc = "input"
    /\ \E rd \in ReqDistances, rp \in ReqRuptureParameters, reqv \in BOOLEAN,
         fewsites \in BOOLEAN :
         kcfg = [cmaker |-> ContextMaker(rd, rp, reqv, 0),
                 gsims_distances |-> rd,
                 fewsites |-> fewsites]
    /\ \E rups \in SeqUpTo(KRupPool, MaxKRups) : krups = WithRupIds(rups)
    /\ ki = 0 /\ kctxs = <<>> /\ klast = <<>>

\* cmaker.filter(sites, rup) on one of the ruptures
Filter ==
    /\ kpc = "input"
    /\ \E i \in 1..Len(krups) :
         /\ ki' = i
         /\ klast' = [op |-> "filter",
                      out |-> filter(kcfg.cmaker, sitecol, krups[i])]
    /\ UNCHANGED <<kpc, kcfg, krups, kctxs>>

\* cmaker.make_contexts(sites, rup) on one of the ruptures
MakeContexts ==
    /\ kpc = "input"
    /\ \E i \in 1..Len(krups) :
         /\ ki' = i
         /\ klast' = [op |-> "make_contexts",
                      out |-> make_contexts(kcfg.cmaker, sitecol, krups[i])]
    /\ UNCHANGED <<kpc, kcfg, krups, kctxs>>

\* cmaker.make_ctxs(ruptures, sites, fewsites)
MakeCtxs ==
    /\ kpc = "input"
    /\ LET out == make_ctxs(kcfg.cmaker, krups, sitecol, kcfg.fewsites)
       IN /\ kctxs' = out.ctxs
          /\ kpc' = IF out.err = "" THEN "done" ELSE out.err
    /\ UNCHANGED <<kcfg, krups, ki, klast>>

NextCtx ==
    \/ Filter /\ UNCHANGED <<cvars, pvars, xvars, zvars>>
    \/ MakeContexts /\ UNCHANGED <<cvars, pvars, xvars, zvars>>
    \/ MakeCtxs /\ UNCHANGED <<cvars, pvars, xvars, zvars>>

\* srcfilter.filter(group): the sources with their close sites, a source
\* without close sites being skipped; a site is close when it is within the
\* maximum distance of the largest magnitude of the source
close_sids(src) ==
    LET mags == {src.rups[i].mag : i \in 1..Len(src.rups)}
        mmax == CHOOSE m \in mags : \A o \in mags : o <= m
    IN SelectSeq(sitecol, LAMBDA sid :
           \E i \in 1..Len(src.rups) :
               get_distances(src.rups[i], <<sid>>, "rrup").dist[1]
                   <= maximum_distance(mmax))
srcfilter_filter(group) ==
    LET kept == SelectSeq(group, LAMBDA src : close_sids(src) # <<>>)
    IN [n \in 1..Len(kept) |-> [src |-> kept[n], sites |-> close_sids(kept[n])]]

\* PmapMaker._get_rups / _ruptures: the ruptures of the sources, without a
\* pointsource_distance
_get_rups(srcs) == Flatten([n \in 1..Len(srcs) |-> srcs[n].rups])

RECURSIVE sum_sites(_)
sum_sites(ctxs) ==
    IF ctxs = <<>> THEN 0 ELSE Len(Head(ctxs).sids) + sum_sites(Tail(ctxs))

\* PmapMaker._make_ctxs: the contexts of the ruptures, collapsed above
\* collapse level 1 and tagged with the source id; made are the contexts
\* before collapsing
_make_ctxs(pm, rups, sites, srcid) ==
    Let(make_ctxs(pm.cmaker, rups, sites, pm.fewsites).ctxs, LAMBDA made :
        Let(IF pm.cmaker.collapse_level > 1
            THEN collapse_the_ctxs(pm.cmaker, made) ELSE made,
            LAMBDA ctxs :
                [made |-> made,
                 ctxs |-> [n \in 1..Len(ctxs) |->
                              [ctxs[n] EXCEPT !.src_id = srcid]],
                 numrups |-> Len(ctxs),
                 numsites |-> sum_sites(ctxs)]))

\* the pairs (srcs, sites) of PmapMaker._make_src_indep
srcs_sites(pm, group) ==
    IF pm.fewsites THEN <<[srcs |-> group, sites |-> sitecol]>>
    ELSE LET f == srcfilter_filter(group)
         IN [n \in 1..Len(f) |-> [srcs |-> <<f[n].src>>, sites |-> f[n].sites]]

\* calc_times[src_id] += [numrups, numsites]
accum(times, src_id, numrups, numsites) ==
    [k \in DOMAIN times \cup {src_id} |->
        IF k = src_id
        THEN IF k \in DOMAIN times
             THEN <<times[k][1] + numrups, times[k][2] + numsites>>
             ELSE <<numrups, numsites>>
        ELSE times[k]]

_make_src_mutex_shared(pm, src, sites, self_pmap) ==
    \* a plausible slip: the contexts of the source are folded into self.pmap
    Let(_make_ctxs(pm, src.rups, sites, src.id), LAMBDA mk :
        Let(IF mk.ctxs # <<>> THEN _update_pmap(pm.rup_indep, mk.ctxs, self_pmap)
            ELSE self_pmap, LAMBDA private :
            Let(IF pm.rup_indep THEN invert(private) ELSE private, LAMBDA p :
                [mk |-> mk,
                 pmap |-> iadd(self_pmap, scale(p, src.mutex_weight))])))

_make_src_mutex_built(pm, src, sites, self_pmap) ==
    \* a plausible slip: the private map is built with an entry for every
    \* site of the source
    Let(_make_ctxs(pm, src.rups, sites, src.id), LAMBDA mk :
        Let([sid \in {sites[i] : i \in 1..Len(sites)} |->
                IF pm.rup_indep THEN ROne ELSE RZero], LAMBDA built :
        Let(IF mk.ctxs # <<>> THEN _update_pmap(pm.rup_indep, mk.ctxs, built)
            ELSE built, LAMBDA private :
            Let(IF pm.rup_indep THEN invert(private) ELSE private, LAMBDA p :
                [mk |-> mk,
                 pmap |-> iadd(self_pmap, scale(p, src.mutex_weight))]))))

\* one iteration of the loop of PmapMaker._make_src_mutex
_make_src_mutex(pm, src, sites, self_pmap) ==
    Let(_make_ctxs(pm, src.rups, sites, src.id), LAMBDA mk :
        Let(IF mk.ctxs # <<>> THEN _update_pmap(pm.rup_indep, mk.ctxs, EmptyPmap)
            ELSE EmptyPmap, LAMBDA private :
            Let(IF pm.rup_indep THEN invert(private) ELSE private, LAMBDA p :
                [mk |-> mk,
                 pmap |-> iadd(self_pmap, scale(p, src.mutex_weight))])))

\* one iteration of the loop of PmapMaker._make_src_indep
_make_src_indep(pm, srcs, sites, self_pmap) ==
    Let(_make_ctxs(pm, _get_rups(srcs), sites, srcs[1].id), LAMBDA mk :
        [mk |-> mk,
         pmap |-> IF mk.ctxs # <<>>
                  THEN _update_pmap(pm.rup_indep, mk.ctxs, self_pmap)
                  ELSE self_pmap])

-----------------------------------------------------------------------------
(* PmapMaker on drawn source groups *)

\* largest number of sources of a group
MaxSrcs == 2

\* the same magnitude right at each of the two sites, at the first site with
\* another rate, half a kilometre off the first site, a larger magnitude
\* seen by both sites, and too far from every site
RupA == MkRup("mesh", 0, 0, 1, 1, <<>>)
RupA2 == MkRup("mesh", 0, 0, 1, 2, <<>>)
RupB == MkRup("mesh", 5, 0, 1, 2, <<>>)
RupC == MkRup("mesh", 1, 0, 1, 1, <<>>)
RupD == MkRup("mesh", 2, 0, 2, 1, <<>>)
RupE == MkRup("mesh", 9, 0, 1, 1, <<>>)
\* nonparametric ruptures
RupF == MkRup("mesh", 0, 0, 1, NaN, <<Rat(1, 4), Rat(3, 4)>>)
RupG == MkRup("mesh", 5, 0, 1, NaN, <<Rat(1, 2), Rat(1, 2)>>)
RupH == MkRup("mesh", 2, 0, 2, NaN, <<Rat(1, 2), Rat(1, 4), Rat(1, 4)>>)
RupI == MkRup("mesh", 9, 0, 1, NaN, <<Rat(1, 2), Rat(1, 2)>>)

\* two ruptures beyond their own maximum distance, the smaller one within
\* the maximum distance of the larger magnitude
RupJ == MkRup("mesh", 8, 0, 1, 1, <<>>)
RupK == MkRup("mesh", 10, 0, 2, 1, <<>>)
RupL == MkRup("mesh", 8, 0, 1, NaN, <<Rat(1, 2), Rat(1, 2)>>)
RupM == MkRup("mesh", 10, 0, 2, NaN, <<Rat(1, 2), Rat(1, 2)>>)

\* the rupture lists of the sources of a group with independent ruptures
IndepSrcPool ==
    {<<RupA, RupB>>, <<RupA, RupA2>>, <<RupD>>, <<RupE>>, <<RupA, RupE>>,
     <<RupF, RupA>>, <<RupC, RupA>>, <<RupB>>, <<RupF, RupF>>,
     <<RupJ, RupK>>}
\* the rupture lists of the sources of a group with mutually exclusive
\* ruptures (nonparametric sources, the weights of the ruptures sum to 1),
\* the last one with two equal ruptures at the first site
MutexSrcPool ==
    {<<RupF>>, <<RupF, RupG>>, <<RupH, RupI>>, <<RupG, RupF>>,
     <<RupL, RupM>>, <<RupF, RupF>>}

\* the group: ids by position, rupture ids along the group, the weights of the
\* ruptures of a source and of the sources of a group summing to 1
MkGroup(lists, src_mutex, rup_indep) ==
    [n \in 1..Len(lists) |->
        [id |-> n,
         mutex_weight |-> IF src_mutex THEN Rat(1, Len(lists)) ELSE <<>>,
         rups |-> [i \in 1..Len(lists[n]) |->
                      [lists[n][i] EXCEPT
                          !.rup_id = 10 * n + i,
                          !.weight = IF rup_indep THEN <<>>
                                     ELSE Rat(1, Len(lists[n]))]]]]

CollapseLevels == {0, 2, 3}

InitPmap ==
    /\ ppc = "new"
    /\ \E src_mutex \in BOOLEAN, rup_indep \in BOOLEAN, fewsites \in BOOLEAN,
         level \in CollapseLevels :
         /\ pcfg = [cmaker |-> ContextMaker({"rrup"}, {"mag"}, FALSE, level),
                    src_mutex |-> src_mutex, rup_indep |-> rup_indep,
                    fewsites |-> fewsites]
         /\ \E lists \in SeqUpTo(IF rup_indep THEN IndepSrcPool
                                 ELSE MutexSrcPool, MaxSrcs) :
              /\ lists # <<>>
              /\ psrcs = MkGroup(lists, src_mutex, rup_indep)
    /\ pi = 0 /\ pmap = <<>> /\ presult = <<>> /\ calc_times = <<>>
    /\ rupdata = <<>> /\ pmade = <<>> /\ pfolded = <<>>

\* PmapMaker.make up to the loop over the sources
Make ==
    /\ ppc = "new"
    /\ ppc' = "loop"
    /\ pi' = 1
    /\ pmap' = EmptyPmap
    /\ calc_times' = <<>>
    /\ rupdata' = <<>>
    /\ UNCHANGED <<pcfg, psrcs, presult, pmade, pfolded>>

\* the bookkeeping of one iteration of either loop
LoopStep(unit_sites, src_id, out) ==
    /\ pmap' = out.pmap
    /\ calc_times' = accum(calc_times, src_id, out.mk.numrups, out.mk.numsites)
    /\ rupdata' = IF pcfg.fewsites THEN rupdata \o out.mk.ctxs ELSE rupdata
    /\ pmade' = Append(pmade, out.mk.made)
    /\ pfolded' = Append(pfolded, [src_id |-> src_id, sites |-> unit_sites,
                                   ctxs |-> out.mk.ctxs])
    /\ pi' = pi + 1
    /\ UNCHANGED <<ppc, pcfg, psrcs, presult>>

\* one iteration of the loop of _make_src_indep
MakeSrcIndep ==
    /\ ppc = "loop" /\ ~pcfg.src_mutex
    /\ pi <= Len(srcs_sites(pcfg, psrcs))
    /\ \E u \in {srcs_sites(pcfg, psrcs)[pi]} :
         \E out \in {_make_src_indep(pcfg, u.srcs, u.sites, pmap)} :
            LoopStep(u.sites, u.srcs[1].id, out)

\* one iteration of the loop of _make_src_mutex
MakeSrcMutex ==
    /\ ppc = "loop" /\ pcfg.src_mutex
    /\ pi <= Len(srcfilter_filter(psrcs))
    /\ \E u \in {srcfilter_filter(psrcs)[pi]} :
         \E out \in {_make_src_mutex(pcfg, u.src, u.sites, pmap)} :
            LoopStep(u.sites, u.src.id, out)

\* the end of the loop: the map returned by make()
Return ==
    /\ ppc = "loop"
    /\ pi > (IF pcfg.src_mutex THEN Len(srcfilter_filter(psrcs))
             ELSE Len(srcs_sites(pcfg, psrcs)))
    /\ presult' = IF ~pcfg.src_mutex /\ pcfg.rup_indep THEN invert(pmap)
                  ELSE pmap
    /\ ppc' = "done"
    /\ UNCHANGED <<pcfg, psrcs, pi, pmap, calc_times, rupdata, pmade, pfolded>>

NextPmap ==
    \/ Make /\ UNCHANGED <<cvars, kvars, xvars, zvars>>
    \/ MakeSrcIndep /\ UNCHANGED <<cvars, kvars, xvars, zvars>>
    \/ MakeSrcMutex /\ UNCHANGED <<cvars, kvars, xvars, zvars>>
    \/ Return /\ UNCHANGED <<cvars, kvars, xvars, zvars>>

-----------------------------------------------------------------------------
(* classical_split_filter: the weighted task partitioner *)

\* largest number of sources given to a task
MaxSources == 3

\* a source of the task: weight, whether it has sites within the integration
\* distance, and the weights of the sub-sources it is split into
MkSrc(weight, close, pieces) ==
    [id |-> <<0, 0>>, weight |-> weight, close |-> close, pieces |-> pieces]
TaskSrcPool ==
    {MkSrc(0, TRUE, <<0>>), MkSrc(1, TRUE, <<1>>), MkSrc(2, TRUE, <<1, 1>>),
     MkSrc(3, TRUE, <<3>>), MkSrc(6, TRUE, <<3, 3>>), MkSrc(12, TRUE, <<12>>),
     MkSrc(4, FALSE, <<2, 2>>)}
\* params['min_weight'], params['max_weight'] (multiples of 10, so that the
\* quotients by 5 and by 2 are whole numbers)
MinWeights == {1, 3}
MaxWeights == {10, 20}

\* get_weight = operator.attrgetter('weight')
get_weight(srcs) == [n \in 1..Len(srcs) |-> srcs[n].weight]
RECURSIVE sum_weights(_)
sum_weights(srcs) ==
    IF srcs = <<>> THEN 0 ELSE Head(srcs).weight + sum_weights(Tail(srcs))

\* srcfilter.split(srcs): the sub-sources of the sources with close sites
srcfilter_split(srcs) ==
    Flatten([n \in 1..Len(srcs) |->
        IF srcs[n].close
        THEN [k \in 1..Len(srcs[n].pieces) |->
                 [id |-> <<srcs[n].id[1], k>>, weight |-> srcs[n].pieces[k],
                  close |-> TRUE, pieces |-> <<srcs[n].pieces[k]>>]]
        ELSE <<>>])

maxw_undivided(prm) ==
    \* a plausible slip: the blocks are cut at params['max_weight'] itself
    prm.max_weight

\* maxw of classical_split_filter
maxw(prm) ==
    IF prm.split_sources THEN prm.max_weight \div 5
    ELSE prm.max_weight \div 2

\* sources of classical_split_filter
split_sources(srcs, prm) ==
    IF prm.split_sources
    THEN SelectSeq(srcs, LAMBDA src : src.weight < prm.min_weight)
         \o srcfilter_split(
                SelectSeq(srcs, LAMBDA src : src.weight >= prm.min_weight))
    ELSE srcs

split_block_assign(minw, st, block) ==
    \* a plausible slip: light = list(block) instead of light.extend(block)
    IF sum_weights(block) < minw
    THEN [st EXCEPT !.light = block]
    ELSE [st EXCEPT !.heavy = Append(@, sum_weights(block)),
                    !.yielded = Append(@, [kind |-> "subtask",
                                           block |-> block])]

split_block_all(minw, st, block) ==
    \* a plausible slip: every block but the last becomes a subtask
    [st EXCEPT !.heavy = Append(@, sum_weights(block)),
               !.yielded = Append(@, [kind |-> "subtask", block |-> block])]

split_block_le(minw, st, block) ==
    \* a plausible slip: block.weight <= minw
    IF sum_weights(block) <= minw
    THEN [st EXCEPT !.light = @ \o block]
    ELSE [st EXCEPT !.heavy = Append(@, sum_weights(block)),
                    !.yielded = Append(@, [kind |-> "subtask",
                                           block |-> block])]

\* one iteration of the loop over blocks[:-1]; st holds heavy, light and
\* what was yielded
split_block(minw, st, block) ==
    IF sum_weights(block) < minw
    THEN [st EXCEPT !.light = @ \o block]
    ELSE [st EXCEPT !.heavy = Append(@, sum_weights(block)),
                    !.yielded = Append(@, [kind |-> "subtask",
                                           block |-> block])]

WithSrcIds(srcs) == [n \in 1..Len(srcs) |-> [srcs[n] EXCEPT !.id = <<n, 0>>]]

InitTask ==
    /\ tpc = "input"
    /\ \E minw \in MinWeights, mw \in MaxWeights, split \in BOOLEAN :
         tparams = [min_weight |-> minw, max_weight |-> mw,
                    split_sources |-> split]
    /\ \E srcs \in SeqUpTo(TaskSrcPool, MaxSources) : tsrcs = WithSrcIds(srcs)
    /\ tsources = <<>> /\ tblocks = <<>> /\ ti = 0 /\ theavy = <<>>
    /\ tlight = <<>> /\ tyielded = <<>>

\* classical_split_filter up to the loop over the blocks: with no block the
\* generator yields an empty result and returns
SplitFilter ==
    /\ tpc = "input"
    /\ \E sources \in {split_sources(tsrcs, tparams)} :
       \E blocks \in {block_splitter(sources, maxw(tparams),
                                     get_weight(sources))} :
          /\ tsources' = sources
          /\ tblocks' = blocks
          /\ IF blocks = <<>>
             THEN /\ tyielded' = <<[kind |-> "empty", block |-> <<>>]>>
                  /\ tpc' = "done"
                  /\ UNCHANGED <<ti, theavy, tlight>>
             ELSE /\ theavy' = <<>>
                  /\ tlight' = blocks[Len(blocks)]
                  /\ ti' = 1
                  /\ tpc' = "loop"
                  /\ UNCHANGED tyielded
    /\ UNCHANGED <<tparams, tsrcs>>

\* one iteration of the loop over blocks[:-1]
SplitBlock ==
    /\ tpc = "loop" /\ ti < Len(tblocks)
    /\ \E st \in {split_block(tparams.min_weight,
                              [heavy |-> theavy, light |-> tlight,
                               yielded |-> tyielded], tblocks[ti])} :
          /\ theavy' = st.heavy
          /\ tlight' = st.light
          /\ tyielded' = st.yielded
    /\ ti' = ti + 1
    /\ UNCHANGED <<tpc, tparams, tsrcs, tsources, tblocks>>

\* yield classical(light, ...): the task computes the light sources itself
YieldLight ==
    /\ tpc = "loop" /\ ti = Len(tblocks)
    /\ tyielded' = Append(tyielded, [kind |-> "result", block |-> tlight])
    /\ tpc' = "done"
    /\ UNCHANGED <<tparams, tsrcs, tsources, tblocks, ti, theavy, tlight>>

NextTask ==
    \/ SplitFilter /\ UNCHANGED <<cvars, kvars, pvars, rvars, dvars, zvars>>
    \/ SplitBlock /\ UNCHANGED <<cvars, kvars, pvars, rvars, dvars, zvars>>
    \/ YieldLight /\ UNCHANGED <<cvars, kvars, pvars, rvars, dvars, zvars>>

TIdle ==
    /\ tpc = "idle" /\ tparams = <<>> /\ tsrcs = <<>> /\ tsources = <<>>
    /\ tblocks = <<>> /\ ti = 0 /\ theavy = <<>> /\ tlight = <<>>
    /\ tyielded = <<>>

-----------------------------------------------------------------------------
(* The minimum-distance roundup: DistancesContext.roundup and
   RuptureContext.roundup *)

\* largest minimum_distance and largest number of sites of a context
MaxMinDist == 2
MaxCtxSites == 2

\* contexts.KNOWN_DISTANCES
KNOWN_DISTANCES ==
    {"rrup", "rx", "ry0", "rjb", "rhypo", "repi", "rcdpp", "azimuth",
     "azimuth_cp", "rvolc", "closest_point"}

\* vars(self).items(): the attributes in the order they were set
AttrOrder == <<"vs30", "rrup", "rx">>
Attrs(names) == SelectSeq(AttrOrder, LAMBDA n : n \in names)

\* array[small_distances] = minimum_distance
rounded(data, m) == [i \in 1..Len(data) |-> IF data[i] < m THEN m ELSE data[i]]
\* small_distances.any()
any_small(data, m) == \E i \in 1..Len(data) : data[i] < m

RECURSIVE roundup_loop_inplace(_, _, _, _)
roundup_loop_inplace(heap, attrs, names, m) ==
    \* a plausible slip: the array is written without the copy
    IF names = <<>> THEN [heap |-> heap, attrs |-> attrs]
    ELSE LET array == attrs[Head(names)]
         IN IF any_small(heap[array].data, m)
            THEN roundup_loop_inplace(
                    [heap EXCEPT ![array] =
                        [data |-> rounded(heap[array].data, m),
                         writeable |-> FALSE]],
                    attrs, Tail(names), m)
            ELSE roundup_loop_inplace(heap, attrs, Tail(names), m)

\* the loop of roundup over the attributes names: an array with small
\* distances is copied, the copy is written and write-protected and
\* replaces the array in the new context
RECURSIVE roundup_loop(_, _, _, _)
roundup_loop(heap, attrs, names, m) ==
    IF names = <<>> THEN [heap |-> heap, attrs |-> attrs]
    ELSE LET array == attrs[Head(names)]
         IN IF any_small(heap[array].data, m)
            THEN roundup_loop(
                    Append(heap, [data |-> rounded(heap[array].data, m),
                                  writeable |-> FALSE]),
                    [attrs EXCEPT ![Head(names)] = Len(heap) + 1],
                    Tail(names), m)
            ELSE roundup_loop(heap, attrs, Tail(names), m)

\* DistancesContext.roundup rounds every attribute, RuptureContext.roundup
\* the attributes of KNOWN_DISTANCES; with minimum_distance 0 both return
\* the context itself
roundup(heap, ctx, m) ==
    IF m = 0 THEN [heap |-> heap, ctx |-> ctx]
    ELSE Let(roundup_loop(heap, ctx.attrs,
                Attrs(IF ctx.class = "DistancesContext" THEN DOMAIN ctx.attrs
                      ELSE DOMAIN ctx.attrs \cap KNOWN_DISTANCES), m),
             LAMBDA r : [heap |-> r.heap,
                         ctx |-> [class |-> ctx.class, attrs |-> r.attrs]])

\* the values of a distance: rx is negative on one side of the rupture
DistValues == [rrup |-> 0..MaxMinDist, rx |-> -1..(MaxMinDist - 1),
               vs30 |-> 1..MaxMinDist]

\* the contexts: a DistancesContext holds distances, a
\* RuptureContext the site parameters too
RoundupCtxs ==
    {[class |-> "DistancesContext", names |-> {"rrup"}],
     [class |-> "DistancesContext", names |-> {"rrup", "rx"}],
     [class |-> "RuptureContext", names |-> {"vs30", "rrup"}]}

InitRoundup ==
    /\ upc = "ctx"
    /\ \E n \in 1..MaxCtxSites : \E c \in RoundupCtxs : \E w \in BOOLEAN :
       \E arrays \in [c.names -> UNION {[1..n -> DistValues[nm]] :
                                          nm \in c.names}] :
          /\ \A nm \in c.names : arrays[nm] \in [1..n -> DistValues[nm]]
          /\ uheap0 = [i \in 1..Len(Attrs(c.names)) |->
                          [data |-> arrays[Attrs(c.names)[i]],
                           writeable |-> w]]
          /\ uctx = [class |-> c.class,
                     attrs |-> [nm \in c.names |->
                                  CHOOSE i \in 1..Len(Attrs(c.names)) :
                                     Attrs(c.names)[i] = nm]]
    /\ uheap = uheap0
    /\ um \in 0..MaxMinDist
    /\ uonce = <<>>
    /\ utwice = <<>>

\* ctx.roundup(minimum_distance)
RoundupOnce ==
    /\ upc = "ctx"
    /\ \E r \in {roundup(uheap, uctx, um)} :
         /\ uheap' = r.heap
         /\ uonce' = r.ctx
    /\ upc' = "once"
    /\ UNCHANGED <<uheap0, uctx, um, utwice>>

\* ctx.roundup(minimum_distance).roundup(minimum_distance)
RoundupTwice ==
    /\ upc = "once"
    /\ \E r \in {roundup(uheap, uonce, um)} :
         /\ uheap' = r.heap
         /\ utwice' = r.ctx
    /\ upc' = "twice"
    /\ UNCHANGED <<uheap0, uctx, um, uonce>>

NextRoundup ==
    \/ RoundupOnce /\ UNCHANGED <<cvars, kvars, pvars, xvars, uothers>>
    \/ RoundupTwice /\ UNCHANGED <<cvars, kvars, pvars, xvars, uothers>>

UIdle ==
    /\ upc = "idle" /\ uheap0 = <<>> /\ uheap = <<>> /\ uctx = <<>>
    /\ um = 0 /\ uonce = <<>> /\ utwice = <<>>

-----------------------------------------------------------------------------
(* Effect.dist_by_mag: the distance at which a magnitude has an intensity.
   Intensities are integers counting hundredths, distances are exact
   rationals. *)

MaxIntensity == 3

\* numpy.searchsorted(a, v): the number of elements of a below v
searchsorted(a, v) == Cardinality({i \in 1..Len(a) : a[i] < v})

\* numpy.argsort(x) of distinct values: the indices in the order of the values
argsort(x) ==
    [k \in 1..Len(x) |->
        CHOOSE i \in 1..Len(x) : searchsorted(x, x[i]) = k - 1]

\* scipy.interpolate.interp1d(x, y)(x_new), linear: x is sorted with y, the
\* segment is found with searchsorted and clipped to 1..n-1, the value is
\* y_lo + slope * (x_new - x_lo)
interp1d(x, y, x_new) ==
    Let(argsort(x), LAMBDA ind :
    Let(Min(Max(searchsorted([k \in 1..Len(x) |-> x[ind[k]]], x_new), 1),
            Len(x) - 1), LAMBDA hi :
        Rat(y[ind[hi]] * (x[ind[hi + 1]] - x[ind[hi]])
              + (y[ind[hi + 1]] - y[ind[hi]]) * (x_new - x[ind[hi]]),
            x[ind[hi + 1]] - x[ind[hi]])))

\* intensities.min(), intensities.max()
array_min(a) == SetMin({a[i] : i \in 1..Len(a)})
array_max(a) == SetMax({a[i] : i \in 1..Len(a)})

dist_by_mag_swapped(effect, intensity) ==
    \* a plausible slip: the two ends of the distances exchanged
    [mag \in DOMAIN effect.effect_by_mag |->
        IF intensity < array_min(effect.effect_by_mag[mag])
        THEN Rat(effect.dists[1], 1)
        ELSE IF intensity > array_max(effect.effect_by_mag[mag])
        THEN Rat(effect.dists[Len(effect.dists)], 1)
        ELSE interp1d(effect.effect_by_mag[mag], effect.dists, intensity)]

\* Effect.dist_by_mag
dist_by_mag(effect, intensity) ==
    [mag \in DOMAIN effect.effect_by_mag |->
        IF intensity < array_min(effect.effect_by_mag[mag])
        THEN Rat(effect.dists[Len(effect.dists)], 1)
        ELSE IF intensity > array_max(effect.effect_by_mag[mag])
        THEN Rat(effect.dists[1], 1)
        ELSE interp1d(effect.effect_by_mag[mag], effect.dists, intensity)]

\* the table of EffectTestCase
TestEffect ==
    [effect_by_mag |->
        ("4.5" :> <<100, 95, 70, 60, 50, 30>>) @@
        ("5.0" :> <<120, 110, 70, 69, 60, 50>>) @@
        ("5.5" :> <<150, 120, 89, 85, 82, 60>>) @@
        ("6.0" :> <<200, 150, 90, 85, 81, 60>>),
     dists |-> <<0, 10, 20, 30, 40, 50>>]

\* the intensities EffectTestCase asks for
TestIntensities == {0, 90, 110}

\* the arrays of three distinct intensities, in any order
Intensities3 ==
    {a \in [1..3 -> 1..MaxIntensity] : \A i, j \in 1..3 : i # j => a[i] # a[j]}

\* Effects of two magnitudes over three distances
SmallEffects ==
    {[effect_by_mag |-> ("4.5" :> a) @@ ("5.0" :> b),
      dists |-> <<0, 10, 20>>] :
        a \in Intensities3, b \in Intensities3}

InitEffect ==
    /\ fpc = "effect"
    /\ \/ feffect = TestEffect /\ fintensity \in TestIntensities
       \/ feffect \in SmallEffects /\ fintensity \in 0..(MaxIntensity + 1)
    /\ fdst = <<>>

\* effect.dist_by_mag(intensity)
DistByMag ==
    /\ fpc = "effect"
    /\ fdst' = dist_by_mag(feffect, fintensity)
    /\ fpc' = "done"
    /\ UNCHANGED <<feffect, fintensity>>

NextEffect ==
    DistByMag /\ UNCHANGED <<cvars, kvars, pvars, xvars, fothers>>

FIdle == fpc = "idle" /\ feffect = <<>> /\ fintensity = 0 /\ fdst = <<>>

-----------------------------------------------------------------------------
(* The pmf extractors: hazardlib.calc.disagg.collapse and pmf_map.
   An array is its shape and its values by index; the indices of an axis
   start from 0 and axis a is the position a + 1 of an index. *)

MaxBins == 2
MaxCells == 4

\* the indices of an array of the given shape
Indices(shape) ==
    {idx \in [1..Len(shape) -> 0..(MaxBins - 1)] :
        \A p \in 1..Len(shape) : idx[p] < shape[p]}

\* the positions of an array of ndim dimensions which are not in axis
kept_axes(ndim, axis) ==
    SelectSeq([p \in 1..ndim |-> p], LAMBDA p : (p - 1) \notin axis)

\* numpy.prod(1. - x) over the cells
RECURSIVE prod_1m(_, _)
prod_1m(x, cells) ==
    IF cells = {} THEN ROne
    ELSE LET c == CHOOSE c \in cells : TRUE
         IN RMul(RSub(ROne, x.data[c]), prod_1m(x, cells \ {c}))

\* collapse(*axis)(x) = 1. - numpy.prod(1. - x, axis)
collapse(axis, x) ==
    Let(kept_axes(Len(x.shape), axis), LAMBDA kept :
        [shape |-> [k \in 1..Len(kept) |-> x.shape[kept[k]]],
         data |-> [idx \in Indices([k \in 1..Len(kept) |-> x.shape[kept[k]]])
                     |-> RSub(ROne, prod_1m(x,
                            {c \in Indices(x.shape) :
                                \A k \in 1..Len(kept) : c[kept[k]] = idx[k]}))]])

MAG == 0
DIS == 1
LON == 2
LAT == 3
EPS == 4

mag_pmf(x) == collapse({DIS, LON, LAT, EPS}, x)
dist_pmf(x) == collapse({MAG, LON, LAT, EPS}, x)
mag_dist_pmf(x) == collapse({LON, LAT, EPS}, x)
mag_dist_eps_pmf(x) == collapse({LON, LAT}, x)
lon_lat_pmf(x) == collapse({DIS, MAG, EPS}, x)
mag_lon_lat_pmf(x) == collapse({DIS, EPS}, x)
trt_pmf(x) == collapse({1, 2, 3, 4, 5}, x)

\* matrices[t]: the submatrix at the index t of the first axis
submatrix(x, t) ==
    [shape |-> Tail(x.shape),
     data |-> [idx \in Indices(Tail(x.shape)) |-> x.data[<<t>> \o idx]]]

\* res.transpose(1, 2, 0) of a 3d array
transpose_120(res) ==
    [shape |-> <<res.shape[2], res.shape[3], res.shape[1]>>,
     data |-> [idx \in Indices(<<res.shape[2], res.shape[3], res.shape[1]>>)
                 |-> res.data[<<idx[3], idx[1], idx[2]>>]]]

\* lon_lat_trt_pmf(matrices): lon_lat_pmf of every submatrix along the first
\* axis, stacked and transposed
lon_lat_trt_pmf(matrices) ==
    Let([t \in 0..(matrices.shape[1] - 1) |->
            lon_lat_pmf(submatrix(matrices, t))], LAMBDA pmfs_ :
        transpose_120(
            [shape |-> <<matrices.shape[1]>> \o pmfs_[0].shape,
             data |-> [idx \in Indices(<<matrices.shape[1]>> \o pmfs_[0].shape)
                         |-> pmfs_[idx[1]].data[Tail(idx)]]]))

\* the keys of pmf_map
PmfNames ==
    {"Mag", "Dist", "TRT", "Mag_Dist", "Mag_Dist_Eps", "Lon_Lat",
     "Mag_Lon_Lat", "Lon_Lat_TRT"}

\* pmf_map[name](x)
pmf_map(name, x) ==
    CASE name = "Mag" -> mag_pmf(x)
      [] name = "Dist" -> dist_pmf(x)
      [] name = "TRT" -> trt_pmf(x)
      [] name = "Mag_Dist" -> mag_dist_pmf(x)
      [] name = "Mag_Dist_Eps" -> mag_dist_eps_pmf(x)
      [] name = "Lon_Lat" -> lon_lat_pmf(x)
      [] name = "Mag_Lon_Lat" -> mag_lon_lat_pmf(x)
      [] name = "Lon_Lat_TRT" -> lon_lat_trt_pmf(x)

\* the shapes of the matrix of disaggregation(): (mag, dist, lon, lat, eps,
\* trt) bins, at most MaxCells cells
MatrixShapes ==
    {shape \in [1..6 -> 1..MaxBins] :
        shape[1] * shape[2] * shape[3] * shape[4] * shape[5] * shape[6]
            <= MaxCells}

\* the probabilities of a cell
CellPoes == {RZero, <<1, 2>>}

InitPmf ==
    /\ mpc = "matrix"
    /\ \E shape \in MatrixShapes : \E data \in [Indices(shape) -> CellPoes] :
          mmatrix0 = [shape |-> shape, data |-> data]
    /\ mmatrix = mmatrix0
    /\ mname \in PmfNames
    /\ mout = <<>>

\* pmf_map[name](matrix): the extractors build new arrays
Extract ==
    /\ mpc = "matrix"
    /\ mout' = pmf_map(mname, mmatrix)
    /\ mpc' = "done"
    /\ UNCHANGED <<mmatrix0, mmatrix, mname>>

NextPmf ==
    Extract /\ UNCHANGED <<cvars, kvars, pvars, xvars, mothers>>

MIdle ==
    /\ mpc = "idle" /\ mmatrix0 = <<>> /\ mmatrix = <<>>
    /\ mname = "" /\ mout = <<>>

-----------------------------------------------------------------------------
(* The distance arrays of a context with their flags: get_distances,
   ContextMaker.filter, make_contexts and make_ctxs seen as builders of
   numpy arrays. An array is its values and flags.writeable. *)

ndarray(data, writeable) == [data |-> data, writeable |-> writeable]

\* get_distances: dist.flags.writeable = False before the return
get_distances_array(rupture, sites, param) ==
    ndarray(get_distances(rupture, sites, param).dist, FALSE)

\* a[mask] with a boolean mask: a new array, writeable whatever a is
getitem_mask(a, mask) == ndarray(MaskSeq(a.data, mask), TRUE)

\* ContextMaker.filter: DistancesContext([('rrup', distances[mask])])
filter_arrays(cmaker, sites, rup) ==
    Let(get_distances_array(rup, sites, "rrup"), LAMBDA distances :
        LET mdist == maximum_distance(rup.mag)
            mask == [i \in 1..Len(sites) |-> distances.data[i] <= mdist]
        IN IF \E i \in 1..Len(sites) : mask[i]
           THEN [err |-> "", sites |-> MaskSeq(sites, mask),
                 dctx |-> [rrup |-> getitem_mask(distances, mask)]]
           ELSE [err |-> "FarAwayRupture", sites |-> <<>>, dctx |-> <<>>])

\* reqv_obj.get(repi, mag) and numpy.sqrt(reqv**2 + depth**2): new arrays
reqv_array(repi, mag) == ndarray(reqv_get(repi.data, mag), TRUE)

\* ContextMaker.make_contexts: the other distances come from get_distances,
\* rjb and rrup are replaced by the equivalent distance of a planar rupture
make_contexts_arrays(cmaker, sites, rupture) ==
    Let(filter_arrays(cmaker, sites, rupture), LAMBDA f :
        LET others == cmaker.REQUIRES_DISTANCES \ {"rrup"}
            names == others \cup {"rrup"}
            dctx0 == [par \in names |->
                        IF par = "rrup" THEN f.dctx.rrup
                        ELSE get_distances_array(rupture, f.sites, par)]
            subst == cmaker.reqv /\ rupture.surface = "planar"
            dctx == [par \in names |->
                        IF subst /\ par \in {"rjb", "rrup"}
                              /\ par \in cmaker.REQUIRES_DISTANCES
                        THEN reqv_array(dctx0["repi"], rupture.mag)
                        ELSE dctx0[par]]
        IN IF f.err # "" THEN [err |-> f.err]
           ELSE IF \E par \in others :
                      get_distances(rupture, f.sites, par).err # ""
           THEN [err |-> "ValueError"]
           ELSE Let(make_rctx(cmaker, rupture), LAMBDA rctx :
                    IF rctx.err # "" THEN [err |-> rctx.err]
                    ELSE [err |-> "", sites |-> f.sites, dctx |-> dctx]))

\* one iteration of the loop of make_ctxs:
\* setattr(ctx, par, getattr(dctx, par)) attaches the arrays themselves
make_ctx_arrays(cmaker, rup, sites) ==
    Let(make_contexts_arrays(cmaker, sites, rup), LAMBDA mc :
        IF mc.err # "" THEN [err |-> mc.err]
        ELSE [err |-> "",
              sids |-> mc.sites,
              dist |-> [par \in cmaker.REQUIRES_DISTANCES \cup {"rrup"}
                          |-> mc.dctx[par]]])

InitArrays ==
    /\ wpc = "rupture"
    /\ \E rd \in ReqDistances, rp \in ReqRuptureParameters, reqv \in BOOLEAN :
         wcmaker = ContextMaker(rd, rp, reqv, 0)
    /\ wrup \in KRupPool
    /\ wctx = <<>>

\* cmaker.make_ctxs([rup], sites, fewsites)
MakeCtxArrays ==
    /\ wpc = "rupture"
    /\ wctx' = make_ctx_arrays(wcmaker, wrup, sitecol)
    /\ wpc' = "done"
    /\ UNCHANGED <<wcmaker, wrup>>

NextArrays ==
    MakeCtxArrays /\ UNCHANGED <<cvars, kvars, pvars, xvars, wothers>>

WIdle == wpc = "idle" /\ wcmaker = <<>> /\ wrup = <<>> /\ wctx = <<>>

-----------------------------------------------------------------------------
(* The temporal occurrence model of the contexts of
   hazardlib.calc.disagg.disaggregation. A temporal occurrence model is a
   PoissonTOM with its time span; the ruptures are parametric and close to
   the site. *)

MaxTimeSpan == 2
MaxORups == 2

\* PoissonTOM(time_span).get_probability_no_exceedance(rate, poes):
\* exp(-rate * time_span * poes), on the grid of TomBase
poisson_get_probability_no_exceedance(tom, occurrence_rate, poe) ==
    RPow(TomBase, tom.time_span * occurrence_rate * poe)

\* src.iter_ruptures(): the parametric ruptures of a source carry the
\* temporal occurrence model of the source
iter_ruptures(src) ==
    [i \in 1..Len(src.rates) |->
        [occurrence_rate |-> src.rates[i],
         temporal_occurrence_model |-> src.temporal_occurrence_model]]

make_rctx_vars_rate_only(rupture) ==
    \* a plausible slip: only the occurrence rate is copied
    [occurrence_rate |-> rupture.occurrence_rate]

\* make_rctx: ctx = RuptureContext(); vars(ctx).update(vars(rupture))
make_rctx_vars(rupture) == [f \in DOMAIN rupture |-> rupture[f]]

\* from_srcs(srcs, site1): the contexts of the ruptures of the sources
from_srcs(srcs) ==
    Flatten([n \in 1..Len(srcs) |->
                [i \in 1..Len(iter_ruptures(srcs[n])) |->
                    make_rctx_vars(iter_ruptures(srcs[n])[i])]])

\* self.temporal_occurrence_model: the attribute of the instance when it
\* has one, the field of the class otherwise
getattr_temporal_occurrence_model(ctx, class_field) ==
    IF "temporal_occurrence_model" \in DOMAIN ctx
    THEN ctx.temporal_occurrence_model ELSE class_field

\* RuptureContext.get_probability_no_exceedance of a parametric context
ctx_get_probability_no_exceedance(ctx, class_field, poe) ==
    poisson_get_probability_no_exceedance(
        getattr_temporal_occurrence_model(ctx, class_field),
        ctx.occurrence_rate, poe)

\* disaggregate(ctxs, ...): the no-exceedance probability of every context
disaggregate_pnes(ctxs, class_field, poe) ==
    [u \in 1..Len(ctxs) |->
        ctx_get_probability_no_exceedance(ctxs[u], class_field, poe)]

\* the sources of a tectonic region type: one source with its model and
\* the rates of its ruptures
TrtSources ==
    {<<[temporal_occurrence_model |-> [time_span |-> t], rates |-> r]>> :
        t \in 1..MaxTimeSpan, r \in SeqUpTo(1..2, MaxORups) \ {<<>>}}

\* the tectonic region types of by_trt, in order
OTrts == <<"A", "B">>

InitTom ==
    /\ opc = "contexts"
    /\ osrcs \in [{"A", "B"} -> TrtSources]
    /\ opoe \in 1..2
    /\ otom = None
    /\ orups = <<>> /\ obdata = <<>> /\ oi = 0

\* one iteration of "for trt, srcs in by_trt.items()": the class field is
\* set to the model of the first source and the contexts are collected
CollectContexts ==
    /\ opc = "contexts"
    /\ oi < Len(OTrts)
    /\ otom' = osrcs[OTrts[oi + 1]][1].temporal_occurrence_model
    /\ orups' = [trt \in {OTrts[n] : n \in 1..(oi + 1)} |->
                    IF trt = OTrts[oi + 1] THEN from_srcs(osrcs[trt])
                    ELSE orups[trt]]
    /\ oi' = IF oi + 1 = Len(OTrts) THEN 0 ELSE oi + 1
    /\ opc' = IF oi + 1 = Len(OTrts) THEN "disaggregate" ELSE "contexts"
    /\ UNCHANGED <<osrcs, opoe, obdata>>

\* one iteration of "for trt in cmaker": the contexts of the tectonic
\* region type are disaggregated
Disaggregate ==
    /\ opc = "disaggregate"
    /\ oi < Len(OTrts)
    /\ obdata' = [trt \in {OTrts[n] : n \in 1..(oi + 1)} |->
                     IF trt = OTrts[oi + 1]
                     THEN disaggregate_pnes(orups[trt], otom, opoe)
                     ELSE obdata[trt]]
    /\ oi' = oi + 1
    /\ opc' = IF oi + 1 = Len(OTrts) THEN "done" ELSE "disaggregate"
    /\ UNCHANGED <<osrcs, opoe, otom, orups>>

NextTom ==
    \/ CollectContexts /\ UNCHANGED <<cvars, kvars, pvars, xvars, oothers>>
    \/ Disaggregate /\ UNCHANGED <<cvars, kvars, pvars, xvars, oothers>>

OIdle ==
    /\ opc = "idle" /\ osrcs = <<>> /\ opoe = 0 /\ otom = None
    /\ orups = <<>> /\ obdata = <<>> /\ oi = 0

-----------------------------------------------------------------------------
(* The epsilon bands: hazardlib.calc.disagg._eps3 and _disagg_eps.
   Epsilons and levels are counted in half bands from the lower truncation
   level: the edge k of the epsilon bins is at 2 * k. The truncated normal
   is its cumulative distribution on these positions, in units of
   1/CdfDen. *)

MaxEps == 2
CdfDen == 6
MaxLvls == 2

\* tn.cdf(x) and tn.sf(x) of scipy.stats.truncnorm(-tl, tl)
truncnorm_cdf(tn, x) ==
    IF x <= 0 THEN RZero
    ELSE IF x >= 2 * tn.n_epsilons THEN ROne
    ELSE Rat(tn.cdf[x], CdfDen)
truncnorm_sf(tn, x) == RSub(ROne, truncnorm_cdf(tn, x))

\* _eps3: eps = numpy.linspace(-tl, tl, n_epsilons + 1) and
\* eps_bands = tn.cdf(eps[1:]) - tn.cdf(eps[:-1])
_eps3(tn) ==
    [truncnorm |-> tn,
     epsilons |-> [k \in 1..(tn.n_epsilons + 1) |-> 2 * (k - 1)],
     eps_bands |-> [e \in 1..tn.n_epsilons |->
                      RSub(truncnorm_cdf(tn, 2 * e),
                           truncnorm_cdf(tn, 2 * (e - 1)))]]

\* disaggregate: cum_bands = numpy.array([eps_bands[e:].sum() for e in range(E)] + [0])
cum_bands_of(eps_bands) ==
    [e \in 1..(Len(eps_bands) + 1) |->
        IF e <= Len(eps_bands)
        THEN RSum(SubSeq(eps_bands, e, Len(eps_bands))) ELSE RZero]

_disagg_eps_below(survival, bins, e, eps_band, cum_bands) ==
    \* a plausible slip: res[inside] = survival - cum_bands[bins - 1]
    [u \in 1..Len(bins) |->
        IF bins[u] <= e THEN eps_band
        ELSE IF bins[u] = e + 1
        THEN RSub(survival[u], cum_bands[bins[u]])
        ELSE RZero]

\* _disagg_eps: the band e counts in full for the ruptures with the level
\* below it (bins <= e), and for the part above the level when the level is
\* inside it (bins == e + 1)
_disagg_eps(survival, bins, e, eps_band, cum_bands) ==
    [u \in 1..Len(bins) |->
        IF bins[u] <= e THEN eps_band
        ELSE IF bins[u] = e + 1
        THEN RSub(survival[u], cum_bands[bins[u] + 1])
        ELSE RZero]

\* disaggregate: sf = truncnorm.sf(lvls),
\* bins = numpy.searchsorted(epsilons, lvls) and the contributions of every
\* epsilon band
disagg_eps_bands(eps3, lvls) ==
    [e \in 0..(Len(eps3.eps_bands) - 1) |->
        _disagg_eps([u \in 1..Len(lvls) |-> truncnorm_sf(eps3.truncnorm, lvls[u])],
                    [u \in 1..Len(lvls) |-> searchsorted(eps3.epsilons, lvls[u])],
                    e, eps3.eps_bands[e + 1], cum_bands_of(eps3.eps_bands))]

\* the truncated normals: n bands and a strictly increasing cdf between
\* the truncation levels
TruncNorms ==
    UNION {{[n_epsilons |-> n, cdf |-> c] :
               c \in {f \in [1..(2 * n - 1) -> 1..(CdfDen - 1)] :
                         \A x \in 1..(2 * n - 2) : f[x] < f[x + 1]}} :
           n \in 1..MaxEps}

InitEps ==
    /\ bpc = "levels"
    /\ btn \in TruncNorms
    /\ blvls \in SeqUpTo(-1..(2 * btn.n_epsilons + 1), MaxLvls) \ {<<>>}
    /\ bres = <<>>

\* the loop over the epsilon bands of disaggregate
DisaggEps ==
    /\ bpc = "levels"
    /\ bres' = disagg_eps_bands(_eps3(btn), blvls)
    /\ bpc' = "done"
    /\ UNCHANGED <<btn, blvls>>

NextEps ==
    DisaggEps /\ UNCHANGED <<cvars, kvars, pvars, xvars, bothers>>

BIdle == bpc = "idle" /\ btn = <<>> /\ blvls = <<>> /\ bres = <<>>

-----------------------------------------------------------------------------
(* The reducers: DisaggregationCalculator.agg_result and
   ClassicalCalculator.agg_dicts *)

\* largest number of task results
MaxResults == 3

\* baselib.general.agg_probs on two matrices given as sequences of cells:
\* 1 - (1 - a) * (1 - b), cell by cell
agg_probs(a, b) ==
    [c \in 1..Len(b) |-> RSub(ROne, RMul(RSub(ROne, a[c]), RSub(ROne, b[c])))]
\* the 0 of acc[s, m, k].get((trti, magi), 0), with the shape of a matrix
zeros(mat) == [c \in 1..Len(mat) |-> RZero]

\* the keys (s, m, k) a result writes
result_keys(result) ==
    {<<sm[1], sm[2], k>> : sm \in DOMAIN result.data, k \in {0, 1}}

agg_result_last(acc, result) ==
    \* a plausible slip: acc[s, m, k][trti, magi] = out[k]
    [key \in DOMAIN acc \cup result_keys(result) |->
        IF key \in result_keys(result)
        THEN LET old == IF key \in DOMAIN acc THEN acc[key] ELSE <<>>
                 tm == <<result.trti, result.magi>>
                 out == result.data[<<key[1], key[2]>>]
             IN [t \in DOMAIN old \cup {tm} |->
                    IF t = tm THEN out[key[3] + 1] ELSE old[t]]
        ELSE acc[key]]

\* DisaggregationCalculator.agg_result: acc is a dictionary
\* (s, m, k) -> (trti, magi) -> matrix
agg_result(acc, result) ==
    [key \in DOMAIN acc \cup result_keys(result) |->
        IF key \in result_keys(result)
        THEN LET old == IF key \in DOMAIN acc THEN acc[key] ELSE <<>>
                 tm == <<result.trti, result.magi>>
                 out == result.data[<<key[1], key[2]>>]
                 x == IF tm \in DOMAIN old THEN old[tm]
                      ELSE zeros(out[key[3] + 1])
             IN [t \in DOMAIN old \cup {tm} |->
                    IF t = tm THEN agg_probs(x, out[key[3] + 1])
                    ELSE old[t]]
        ELSE acc[key]]

\* ProbabilityMap.__ior__: the union of the sites, with
\* 1 - (1 - a) * (1 - b) where both maps have the site
ior(probmap, other) ==
    [s \in DOMAIN probmap \cup DOMAIN other |->
        IF s \in DOMAIN probmap /\ s \in DOMAIN other
        THEN RSub(ROne, RMul(RSub(ROne, probmap[s]), RSub(ROne, other[s])))
        ELSE IF s \in DOMAIN probmap THEN probmap[s] ELSE other[s]]

\* d + {key: value} on an AccumDict of numbers
add_at(d, key, value) ==
    [k \in DOMAIN d \cup {key} |->
        IF k = key THEN (IF k \in DOMAIN d THEN d[k] + value ELSE value)
        ELSE d[k]]

\* self.calc_times += d
RECURSIVE add_times(_, _, _)
add_times(times, d, ids) ==
    IF ids = {} THEN times
    ELSE LET srcid == CHOOSE i \in ids : TRUE
         IN add_times(accum(times, srcid, d[srcid][1], d[srcid][2]), d,
                      ids \ {srcid})

\* sum(rec[0] for rec in d.values())
RECURSIVE eff_rups(_, _)
eff_rups(d, ids) ==
    IF ids = {} THEN 0
    ELSE LET srcid == CHOOSE i \in ids : TRUE
         IN d[srcid][1] + eff_rups(d, ids \ {srcid})

\* eff_sites += rec[1] / rec[0] for the records with rec[0]
RECURSIVE eff_sites(_, _)
eff_sites(d, ids) ==
    IF ids = {} THEN RZero
    ELSE LET srcid == CHOOSE i \in ids : TRUE
             rest == eff_sites(d, ids \ {srcid})
         IN IF d[srcid][1] # 0
            THEN RAdd(Rat(d[srcid][2], d[srcid][1]), rest)
            ELSE rest

\* ClassicalCalculator.agg_dicts on the state st = [acc, self]: acc.pmaps is
\* the dictionary itself (grp_id or source_id -> pmap), acc.eff_ruptures its
\* attribute; a result is a dictionary, never None, and store_ctxs writes
\* rup_data in the datastore, out of the accumulator
agg_dicts(cfg, st, dic) ==
    IF dic.pmap = EmptyPmap THEN st
    ELSE LET extra == dic.extra
             grp_id == extra.grp_id
             acc1 == IF cfg.disagg_by_src
                     THEN [k \in DOMAIN st.acc.pmaps \cup {extra.source_id}
                             |-> IF k = extra.source_id THEN dic.pmap
                                 ELSE st.acc.pmaps[k]]
                     ELSE st.acc.pmaps
             d == dic.calc_times
             acc2 == [k \in DOMAIN acc1 \cup {grp_id} |->
                        IF k = grp_id
                        THEN IF grp_id \in DOMAIN acc1
                             THEN ior(acc1[grp_id], dic.pmap)
                             ELSE dic.pmap
                        ELSE acc1[k]]
         IN [acc |-> [pmaps |-> acc2,
                      eff_ruptures |-> add_at(st.acc.eff_ruptures, extra.trt,
                                              eff_rups(d, DOMAIN d))],
             self |-> [totrups |-> st.self.totrups + extra.totrups,
                       maxradius |-> Max(st.self.maxradius, extra.maxradius),
                       calc_times |-> add_times(st.self.calc_times, d,
                                                DOMAIN d),
                       by_task |-> [t \in DOMAIN st.self.by_task
                                         \cup {extra.task_no} |->
                                       IF t = extra.task_no
                                       THEN <<eff_rups(d, DOMAIN d),
                                              eff_sites(d, DOMAIN d), DOMAIN d>>
                                       ELSE st.self.by_task[t]]]]

\* the output of a disaggregation task for one site and imt: the two
\* marginal matrices
OutA == <<(<<Rat(1, 2), RZero>>), <<Rat(1, 2)>>>>
OutB == <<(<<Rat(1, 4), Rat(1, 2)>>), <<Rat(5, 8)>>>>
\* the results of the disaggregation tasks: with no site, one site or two
DisaggData ==
    {<<>>,
     [sm \in {<<0, 0>>} |-> OutA],
     [sm \in {<<0, 0>>} |-> OutB],
     [sm \in {<<0, 0>>, <<1, 0>>} |-> IF sm[1] = 0 THEN OutB ELSE OutA]}
DisaggResults ==
    {[trti |-> 0, magi |-> 0, data |-> data] : data \in DisaggData}
    \cup {[trti |-> 1, magi |-> 0, data |-> [sm \in {<<0, 0>>} |-> OutA]]}

\* the results of the classical tasks; sites 1 and 2, the sources "a", "b"
MkResult(pm, d, g) ==
    [pmap |-> pm, calc_times |-> d,
     extra |-> [grp_id |-> g, trt |-> g, source_id |-> 0, task_no |-> 0,
                totrups |-> Cardinality(DOMAIN d),
                maxradius |-> Cardinality(DOMAIN pm)]]
ClassicalResults ==
    {MkResult(EmptyPmap, [src \in {"a"} |-> <<0, 0>>], 0),
     MkResult([s \in {1} |-> Rat(1, 2)], [src \in {"a"} |-> <<2, 3>>], 0),
     MkResult([s \in {1, 2} |-> IF s = 1 THEN Rat(1, 4) ELSE Rat(1, 2)],
              [src \in {"a", "b"} |-> IF src = "a" THEN <<1, 1>>
                                      ELSE <<0, 0>>], 0),
     MkResult([s \in {1} |-> Rat(1, 2)], [src \in {"b"} |-> <<2, 3>>], 1)}
\* a source id is a name, never equal to a group id: here a number above
\* the group ids
SourceId(n) == 10 + n
\* the tasks are numbered as they are submitted and, with disagg_by_src, a
\* task holds the sources of one source id
WithTaskNo(results) ==
    [n \in 1..Len(results) |->
        [results[n] EXCEPT !.extra.task_no = n,
                           !.extra.source_id = SourceId(n)]]

InitReduce ==
    /\ \/ /\ rpc = "disagg"
          /\ rcfg = [disagg_by_src |-> FALSE]
          /\ \E results \in SeqUpTo(DisaggResults, MaxResults) :
                rresults = results
          /\ racc = <<>>
          /\ rself = <<>>
       \/ /\ rpc = "classical"
          /\ \E by_src \in BOOLEAN : rcfg = [disagg_by_src |-> by_src]
          /\ \E results \in SeqUpTo(ClassicalResults, MaxResults) :
                rresults = WithTaskNo(results)
          /\ racc = [pmaps |-> <<>>, eff_ruptures |-> <<>>]
          /\ rself = [totrups |-> 0, maxradius |-> 0, calc_times |-> <<>>,
                      by_task |-> <<>>]
    /\ rkind = rpc
    /\ rorder = <<>>
    /\ rpending = 1..Len(rresults)

\* smap.reduce(self.agg_result, acc): one result arrives, whichever
AggResult ==
    /\ rpc = "disagg"
    /\ \E n \in rpending :
         /\ racc' = agg_result(racc, rresults[n])
         /\ rpending' = rpending \ {n}
         /\ rorder' = Append(rorder, n)
    /\ UNCHANGED <<rpc, rcfg, rresults, rkind, rself>>

\* smap.reduce(self.agg_dicts, acc): one result arrives, whichever
AggDicts ==
    /\ rpc = "classical"
    /\ \E n \in rpending :
         \E st \in {agg_dicts(rcfg, [acc |-> racc, self |-> rself],
                              rresults[n])} :
            /\ racc' = st.acc
            /\ rself' = st.self
            /\ rpending' = rpending \ {n}
            /\ rorder' = Append(rorder, n)
    /\ UNCHANGED <<rpc, rcfg, rresults, rkind>>

\* all the results were folded
Reduced ==
    /\ rpc \in {"disagg", "classical"}
    /\ rpending = {}
    /\ rpc' = "done"
    /\ UNCHANGED <<rcfg, rresults, rpending, rkind, rorder, racc, rself>>

NextReduce ==
    \/ AggResult /\ UNCHANGED <<cvars, kvars, pvars, tvars, dvars, zvars>>
    \/ AggDicts /\ UNCHANGED <<cvars, kvars, pvars, tvars, dvars, zvars>>
    \/ Reduced /\ UNCHANGED <<cvars, kvars, pvars, tvars, dvars, zvars>>

RIdle ==
    /\ rpc = "idle" /\ rcfg = <<>> /\ rresults = <<>> /\ rpending = {}
    /\ rkind = "" /\ rorder = <<>> /\ racc = <<>> /\ rself = <<>>

-----------------------------------------------------------------------------
(* The disaggregation matrix: hazardlib.calc.disagg.build_disagg_matrix *)

\* largest number of ruptures in bdata
MaxU == 2

\* numpy.digitize(x, bins) for increasing bins: the number of edges <= x
digitize(x, bins) == Cardinality({i \in 1..Len(bins) : bins[i] <= x})

\* geo.utils.get_longitudinal_extent, in degrees:
\* (lon2 - lon1 + 180) % 360 - 180
get_longitudinal_extent(lon1, lon2) == ((lon2 - lon1 + 180) % 360) - 180

\* geo.utils.cross_idl for two longitudes: they have different signs and
\* are more than 180 degrees apart
cross_idl(lon1, lon2) == lon1 * lon2 < 0 /\ Abs(lon1 - lon2) > 180

\* the bins i_lon (from 0) whose test lon_idx holds for lon
lon_idx(lon, lon_bins) ==
    {i_lon \in 0..(Len(lon_bins) - 2) :
        /\ get_longitudinal_extent(lon, lon_bins[i_lon + 2]) > 0
        /\ i_lon # 0 => get_longitudinal_extent(lon_bins[i_lon + 1], lon) >= 0}

\* _digitize_lons for one longitude: idx starts from 0 and idx[lon_idx] =
\* i_lon is assigned for i_lon = 0, 1, ... so that the last assignment stays
_digitize_lons(lon, lon_bins) ==
    IF cross_idl(lon_bins[1], lon_bins[Len(lon_bins)])
    THEN IF lon_idx(lon, lon_bins) = {} THEN 0
         ELSE SetMax(lon_idx(lon, lon_bins))
    ELSE digitize(lon, lon_bins) - 1

\* idx[idx == dim] = dim - 1
last_bin(idx, dim) == IF idx = dim THEN dim - 1 ELSE idx

\* an index of a numpy array: a negative one counts from the end
py_index(idx, dim) == IF idx < 0 THEN idx + dim ELSE idx

\* the indices of build_disagg_matrix for one rupture
bin_indices(rup, bins) ==
    [dist |-> last_bin(digitize(rup.dist, bins.dist) - 1, Len(bins.dist) - 1),
     lon |-> last_bin(_digitize_lons(rup.lon, bins.lon), Len(bins.lon) - 1),
     lat |-> last_bin(digitize(rup.lat, bins.lat) - 1, Len(bins.lat) - 1)]

\* the cells of mat6D (from 0 on each axis)
Cells(bins) ==
    (0..(Len(bins.dist) - 2)) \X (0..(Len(bins.lon) - 2))
        \X (0..(Len(bins.lat) - 2))

\* the cell mat6D[i_dist, i_lon, i_lat] is written to
cell_of(idx, bins) ==
    <<py_index(idx.dist, Len(bins.dist) - 1),
      py_index(idx.lon, Len(bins.lon) - 1),
      py_index(idx.lat, Len(bins.lat) - 1)>>

\* the bin edges: distances in km, longitudes and latitudes in degrees
DistBins == {<<0, 2, 4>>, <<0, 3>>}
LonBins == {<<10, 11, 12>>, <<179, 180, -179>>, <<178, -180, -178>>}
LatBins == {<<-1, 0, 1>>}
BinsPool ==
    {[dist |-> d, lon |-> l, lat |-> t] :
        d \in DistBins, l \in LonBins, t \in LatBins}

\* the longitudes from the first edge to the last one, going east
LonsWithin(lon_bins) ==
    {lon \in -180..180 :
        /\ get_longitudinal_extent(lon_bins[1], lon) >= 0
        /\ get_longitudinal_extent(lon, lon_bins[Len(lon_bins)]) >= 0
        /\ get_longitudinal_extent(lon_bins[1], lon)
             <= get_longitudinal_extent(lon_bins[1], lon_bins[Len(lon_bins)])}

\* the ruptures of a task lie within the edges: any distance with the
\* closest point in the middle, or any longitude or latitude with a distance
\* in the first bin
BDataPool(bins) ==
    {[dist |-> d, lon |-> bins.lon[2], lat |-> 0, pne |-> Rat(1, 2)] :
        d \in bins.dist[1]..bins.dist[Len(bins.dist)]}
    \cup {[dist |-> 1, lon |-> l, lat |-> 0, pne |-> Rat(3, 4)] :
            l \in LonsWithin(bins.lon)}
    \cup {[dist |-> 1, lon |-> bins.lon[1], lat |-> t, pne |-> Rat(1, 2)] :
            t \in bins.lat[1]..bins.lat[Len(bins.lat)]}

InitBinning ==
    /\ dpc = "binning"
    /\ \E bins \in BinsPool :
         /\ dbins = bins
         /\ \E bdata \in SeqUpTo(BDataPool(bins), MaxU) : dbdata = bdata
    /\ didx = <<>>
    /\ du = 0
    /\ dmat = <<>>

\* build_disagg_matrix up to mat6D = numpy.ones(shape)
Digitize ==
    /\ dpc = "binning"
    /\ didx' = [u \in 1..Len(dbdata) |-> bin_indices(dbdata[u], dbins)]
    /\ dmat' = [cell \in Cells(dbins) |-> ROne]
    /\ dpc' = "accumulate"
    /\ UNCHANGED <<dbins, dbdata, du, epc, eoq, eedges, svars>>

\* mat6D[i_dist, i_lon, i_lat] *= pne for the next rupture
Accumulate ==
    /\ dpc = "accumulate"
    /\ du < Len(dbdata)
    /\ du' = du + 1
    /\ dmat' = [dmat EXCEPT ![cell_of(didx[du + 1], dbins)] =
                    RMul(@, dbdata[du + 1].pne)]
    /\ UNCHANGED <<dpc, dbins, dbdata, didx, epc, eoq, eedges, svars>>

\* return 1. - mat6D
ReturnMatrix ==
    /\ dpc = "accumulate"
    /\ du = Len(dbdata)
    /\ dmat' = [cell \in DOMAIN dmat |-> RSub(ROne, dmat[cell])]
    /\ dpc' = "done"
    /\ UNCHANGED <<dbins, dbdata, didx, du, epc, eoq, eedges, svars>>

NextBinning ==
    \/ Digitize /\ UNCHANGED <<cvars, kvars, pvars, tvars, rvars, zvars>>
    \/ Accumulate /\ UNCHANGED <<cvars, kvars, pvars, tvars, rvars, zvars>>
    \/ ReturnMatrix /\ UNCHANGED <<cvars, kvars, pvars, tvars, rvars, zvars>>

BinningIdle ==
    /\ dpc = "idle" /\ dbins = <<>> /\ dbdata = <<>> /\ didx = <<>>
    /\ du = 0 /\ dmat = <<>>

-----------------------------------------------------------------------------
(* The bin edges: hazardlib.calc.disagg.get_edges_shapedic and the edges of
   hazardlib.calc.disagg.disaggregation *)

\* largest magnitude and distance, largest bin width
MaxMag == 4
MaxDist == 3
MaxWidth == 2

\* numpy.floor(x / w) and numpy.ceil(x / w) for x >= 0 and w > 0
floor_div(x, w) == x \div w
ceil_div(x, w) == (x + w - 1) \div w

\* numpy.arange(a, b)
arange(a, b) == [i \in 1..Max(b - a, 0) |-> a + i - 1]

\* width * numpy.arange(int(numpy.floor(lo / width)),
\*                      int(numpy.ceil(hi / width) + 1))
uniform_edges(lo, hi, width) ==
    [i \in DOMAIN arange(floor_div(lo, width), ceil_div(hi, width) + 1) |->
        width * arange(floor_div(lo, width), ceil_div(hi, width) + 1)[i]]

\* numpy.linspace(-tl, tl, n + 1)
linspace(tl, n) == [i \in 1..(n + 1) |-> Rat((2 * (i - 1) - n) * tl, n)]

\* geo.utils.KM_TO_DEGREES: distances are counted in degrees of arc
KM_TO_DEGREES == 1
\* geo.utils.angular_distance(km, lat) for a site on the equator
angular_distance(km, lat) == km * KM_TO_DEGREES

\* x % 360 for a rational
RMod360(x) == Rat(x[1] % (360 * x[2]), x[2])

\* lon_lat_bins: EPS keeps the last edge, 2 * nbins + 1 edges on each axis
lon_lat_bins(lon, lat, size_km, coord_bin_width) ==
    LET nbins == ceil_div(size_km * KM_TO_DEGREES, coord_bin_width)
        delta_lon == Min(angular_distance(size_km, lat), 180)
        delta_lat == Min(size_km * KM_TO_DEGREES, 90)
        lon_bins == [k \in 1..(2 * nbins + 1) |->
                        Rat((lon - delta_lon) * nbins + (k - 1) * delta_lon,
                            nbins)]
        lat_bins == [k \in 1..(2 * nbins + 1) |->
                        Rat((lat - delta_lat) * nbins + (k - 1) * delta_lat,
                            nbins)]
        crossing == /\ lon_bins[1][1] * lon_bins[2 * nbins + 1][1] < 0
                    /\ 2 * delta_lon > 180
    IN <<IF crossing THEN [k \in DOMAIN lon_bins |-> RMod360(lon_bins[k])]
         ELSE lon_bins,
         lat_bins>>

\* the tectonic region types, in the order of the dictionary
Trts(by_trt) == SelectSeq(<<"A", "B">>, LAMBDA trt : trt \in DOMAIN by_trt)

\* get_edges_shapedic(oq, sitecol, mags_by_trt): the edges and the shape
get_edges_shapedic(oq) ==
    LET mags == UNION {oq.mags_by_trt[trt] : trt \in DOMAIN oq.mags_by_trt}
        mag_edges == uniform_edges(SetMin(mags), SetMax(mags),
                                   oq.mag_bin_width)
        maxdist == SetMax({oq.maximum_distance[trt] :
                              trt \in DOMAIN oq.mags_by_trt})
        dist_edges == [i \in DOMAIN arange(0, ceil_div(maxdist,
                                            oq.distance_bin_width) + 1) |->
                          oq.distance_bin_width * (i - 1)]
        eps_edges == linspace(oq.truncation_level, oq.num_epsilon_bins)
        lonlat == [sid \in DOMAIN oq.sitecol |->
                      lon_lat_bins(oq.sitecol[sid][1], oq.sitecol[sid][2],
                                   maxdist, oq.coordinate_bin_width)]
        trts == Trts(oq.mags_by_trt)
    IN [mag |-> mag_edges, dist |-> dist_edges,
        lon |-> [sid \in DOMAIN lonlat |-> lonlat[sid][1]],
        lat |-> [sid \in DOMAIN lonlat |-> lonlat[sid][2]],
        eps |-> eps_edges, trts |-> trts,
        shape |-> <<Len(mag_edges) - 1, Len(dist_edges) - 1,
                    Len(lonlat[1][1]) - 1, Len(lonlat[1][2]) - 1,
                    Len(eps_edges) - 1, Len(trts)>>]

\* the bin edges of disaggregation(): the magnitudes are those of the
\* ruptures, the distances those of the contexts
disaggregation_edges(oq) ==
    LET mags == UNION {oq.mags_by_trt[trt] : trt \in DOMAIN oq.mags_by_trt}
        mag_bins == uniform_edges(SetMin(mags), SetMax(mags),
                                  oq.mag_bin_width)
        dist_bins == uniform_edges(SetMin(oq.dists), SetMax(oq.dists),
                                   oq.distance_bin_width)
        lonlat == lon_lat_bins(oq.sitecol[1][1], oq.sitecol[1][2],
                               SetMax(oq.dists), oq.coordinate_bin_width)
        eps_bins == linspace(oq.truncation_level, oq.num_epsilon_bins)
        trts == Trts(oq.mags_by_trt)
    IN [mag |-> mag_bins, dist |-> dist_bins,
        lon |-> <<lonlat[1]>>, lat |-> <<lonlat[2]>>,
        eps |-> eps_bins, trts |-> trts,
        shape |-> <<Len(mag_bins) - 1, Len(dist_bins) - 1,
                    Len(lonlat[1]) - 1, Len(lonlat[2]) - 1,
                    Len(eps_bins) - 1, Len(trts)>>]

NonEmptySubsets(S) == SUBSET S \ {{}}

\* (the contexts of disaggregation() are at a positive distance: with a
\* largest distance of 0 lon_lat_bins divides by nbins = 0)
\* the magnitudes by tectonic region type: any magnitudes for the first
\* type, one magnitude for the second one
MagsByTrt ==
    {[trt \in {"A"} |-> ms] : ms \in NonEmptySubsets(1..MaxMag)}
    \cup {[trt \in {"A", "B"} |-> IF trt = "A" THEN ms ELSE {m}] :
            ms \in NonEmptySubsets(1..MaxMag), m \in 1..MaxMag}

InitEdges ==
    /\ epc \in {"get_edges_shapedic", "disaggregation"}
    /\ \E mags_by_trt \in MagsByTrt :
       \E mw \in 1..MaxWidth, dw \in 1..MaxWidth :
       \E dA \in 1..MaxDist, dB \in {MaxDist} :
       \E dists \in NonEmptySubsets(1..dA) :
          eoq = [mag_bin_width |-> mw, distance_bin_width |-> dw,
                 coordinate_bin_width |-> 1, truncation_level |-> 3,
                 num_epsilon_bins |-> 2, mags_by_trt |-> mags_by_trt,
                 maximum_distance |-> [trt \in {"A", "B"} |->
                                         IF trt = "A" THEN dA ELSE dB],
                 dists |-> IF epc = "disaggregation" THEN dists ELSE {},
                 sitecol |-> <<(<<0, 0>>)>>]
    /\ eedges = <<>>

\* get_edges_shapedic(oq, sitecol, mags_by_trt)
GetEdgesShapedic ==
    /\ epc = "get_edges_shapedic"
    /\ eedges' = get_edges_shapedic(eoq)
    /\ epc' = "done"
    /\ UNCHANGED <<dpc, dbins, dbdata, didx, du, dmat, eoq, svars>>

\* disaggregation(): mag_bins, dist_bins, lon_bins, lat_bins, eps_bins
DisaggregationEdges ==
    /\ epc = "disaggregation"
    /\ eedges' = disaggregation_edges(eoq)
    /\ epc' = "done"
    /\ UNCHANGED <<dpc, dbins, dbdata, didx, du, dmat, eoq, svars>>

NextEdges ==
    \/ GetEdgesShapedic /\ UNCHANGED <<cvars, kvars, pvars, tvars, rvars, zvars>>
    \/ DisaggregationEdges /\ UNCHANGED <<cvars, kvars, pvars, tvars, rvars, zvars>>

EdgesIdle == epc = "idle" /\ eoq = <<>> /\ eedges = <<>>

-----------------------------------------------------------------------------
(* The magnitude bin of a rupture: hazardlib.calc.disagg._magbin_groups and
   the magi of calculators.disaggregation.compute_disagg *)

MaxGRups == 3

\* groups[magi].append(rup) for the ruptures from i on; a negative magi
\* counts from the end of the list, a magi outside the list is an IndexError
RECURSIVE _magbin_groups_from(_, _, _, _)
_magbin_groups_from(mags, mag_bins, groups, i) ==
    IF i > Len(mags) THEN [err |-> "", groups |-> groups]
    ELSE Let(searchsorted(mag_bins, mags[i]) - 1, LAMBDA magi :
             IF magi >= Len(groups) \/ magi < -Len(groups)
             THEN [err |-> "IndexError", groups |-> <<>>]
             ELSE _magbin_groups_from(mags, mag_bins,
                      [groups EXCEPT ![py_index(magi, Len(groups)) + 1] =
                          Append(@, i)],
                      i + 1))

\* _magbin_groups(rups, mag_bins): one list of ruptures per magnitude bin
_magbin_groups(mags, mag_bins) ==
    _magbin_groups_from(mags, mag_bins,
                        [b \in 1..(Len(mag_bins) - 1) |-> <<>>], 1)

\* compute_disagg: magi = numpy.searchsorted(bin_edges[0], float(magstr)) - 1
\* and magi = 0 when it is -1
compute_disagg_magi(mag_edges, mag) ==
    Let(searchsorted(mag_edges, mag) - 1, LAMBDA magi :
        IF magi = -1 THEN 0 ELSE magi)

\* the ruptures of disaggregation() and the magnitude edges computed from
\* their smallest and largest magnitude
InitMagbin ==
    /\ gpc = "rups"
    /\ gmags \in SeqUpTo(1..MaxMag, MaxGRups) \ {<<>>}
    /\ \E width \in 1..MaxWidth :
          gbins = uniform_edges(SetMin({gmags[i] : i \in 1..Len(gmags)}),
                                SetMax({gmags[i] : i \in 1..Len(gmags)}),
                                width)
    /\ ggroups = <<>> /\ gmagstr = 0 /\ gmagi = 0

\* _magbin_groups(rups[trt], mag_bins)
MagbinGroups ==
    /\ gpc = "rups"
    /\ ggroups' = _magbin_groups(gmags, gbins)
    /\ gpc' = "grouped"
    /\ UNCHANGED <<gmags, gbins, gmagstr, gmagi>>

\* compute_disagg for the ruptures of one magnitude
ComputeDisaggMagi ==
    /\ gpc = "rups"
    /\ \E i \in 1..Len(gmags) :
          /\ gmagstr' = gmags[i]
          /\ gmagi' = compute_disagg_magi(gbins, gmags[i])
    /\ gpc' = "computed"
    /\ UNCHANGED <<gmags, gbins, ggroups>>

NextMagbin ==
    \/ MagbinGroups /\ UNCHANGED <<cvars, kvars, pvars, xvars, gothers>>
    \/ ComputeDisaggMagi /\ UNCHANGED <<cvars, kvars, pvars, xvars, gothers>>

GIdle ==
    /\ gpc = "idle" /\ gmags = <<>> /\ gbins = <<>> /\ ggroups = <<>>
    /\ gmagstr = 0 /\ gmagi = 0

-----------------------------------------------------------------------------
(* The disaggregation calculator and the sites it disaggregates:
   calculators.disaggregation *)

\* largest number of sites
MaxN == 2

\* the intensity measure types of oq.imtls
Imts == <<"PGA", "SA">>

\* curve[imt].max()
curve_max(poes) == SetMax({poes[i] : i \in 1..Len(poes)})

\* _check_curves: the first (rlz, imt, poe) with poe > max_poe logs
\* POE_TOO_BIG and returns True; a curve that is None cannot be indexed
RECURSIVE _check_curves(_, _, _, _, _)
_check_curves(sid, curves, z, i, poes_disagg) ==
    IF z > Len(curves) THEN [bad |-> FALSE, log |-> <<>>, error |-> FALSE]
    ELSE IF curves[z] = None
    THEN [bad |-> FALSE, log |-> <<>>, error |-> TRUE]
    ELSE IF i > Len(Imts) THEN _check_curves(sid, curves, z + 1, 1, poes_disagg)
    ELSE LET max_poe == curve_max(curves[z][Imts[i]])
             big == {p \in 1..Len(poes_disagg) : poes_disagg[p] > max_poe}
         IN IF big # {}
            THEN [bad |-> TRUE, error |-> FALSE,
                  log |-> <<[msg |-> "POE_TOO_BIG", sid |-> sid,
                             poe |-> poes_disagg[SetMin(big)], rlz |-> z,
                             imt |-> Imts[i]]>>]
            ELSE _check_curves(sid, curves, z, i + 1, poes_disagg)

\* check_poes_disagg, from the site sid on: st holds ok_sites, the log and
\* whether an exception was raised
RECURSIVE check_poes_disagg(_, _, _)
check_poes_disagg(oq, sid, st) ==
    IF st.error THEN st
    ELSE IF sid > Len(oq.sites)
    THEN IF st.ok_sites = {} THEN [st EXCEPT !.exit = TRUE]
         ELSE IF Cardinality(st.ok_sites) < Len(oq.sites)
         THEN [st EXCEPT !.log = Append(@, [msg |-> "Doing the disaggregation"])]
         ELSE st
    ELSE IF \A z \in 1..Len(oq.sites[sid].curves) :
                oq.sites[sid].curves[z] = None
    THEN check_poes_disagg(oq, sid + 1, [st EXCEPT !.ok_sites = @ \cup {sid}])
    ELSE Let(_check_curves(sid, oq.sites[sid].curves, 1, 1, oq.poes_disagg),
             LAMBDA chk :
                check_poes_disagg(oq, sid + 1,
                    [st EXCEPT !.ok_sites = IF chk.bad \/ chk.error THEN @
                                            ELSE @ \cup {sid},
                               !.log = @ \o chk.log,
                               !.error = chk.error]))

\* the hazard curves of a site for one realization: the poes by imt, in
\* percent, by increasing intensity
CurveHigh == [imt \in {"PGA", "SA"} |-> <<50, 10>>]
CurveLow == [imt \in {"PGA", "SA"} |-> IF imt = "PGA" THEN <<20, 5>>
                                       ELSE <<5, 1>>]
\* the curves of a site for the realizations: a site out of a map has None
SiteCurves ==
    {<<None, None>>, <<CurveHigh, CurveHigh>>, <<CurveHigh, CurveLow>>,
     <<CurveLow, CurveLow>>, <<None, CurveLow>>}
\* a site: its curves and whether ruptures are close to it
DisaggSites ==
    {[curves |-> c, close |-> b] : c \in SiteCurves, b \in BOOLEAN}
PoesDisagg == {<<2>>, <<10>>, <<10, 2>>}

InitSites ==
    /\ spc = "full_disaggregation"
    /\ \E sites \in SeqUpTo(DisaggSites, MaxN) \ {<<>>} :
       \E poes \in PoesDisagg, iml \in BOOLEAN, agg \in BOOLEAN :
          soq = [sites |-> sites, poes_disagg |-> poes, iml_disagg |-> iml,
                 poe_agg_differs |-> agg]
    /\ ok_sites = {}
    /\ slog = <<>>
    /\ sresults = {}
    /\ sdisagg = {}

\* full_disaggregation up to self.compute(): with iml_disagg no curve is
\* needed, otherwise check_poes_disagg tells the sites that are ok
FullDisaggregation ==
    /\ spc = "full_disaggregation"
    /\ \E st \in {IF soq.iml_disagg
                  THEN [ok_sites |-> 1..Len(soq.sites), log |-> <<>>,
                        error |-> FALSE, exit |-> FALSE]
                  ELSE check_poes_disagg(soq, 1,
                          [ok_sites |-> {}, log |-> <<>>, error |-> FALSE,
                           exit |-> FALSE])} :
         /\ spc' = IF st.error THEN "TypeError"
                   ELSE IF st.exit THEN "SystemExit" ELSE "compute"
         /\ ok_sites' = IF st.error \/ st.exit THEN {} ELSE st.ok_sites
         /\ slog' = st.log
    /\ UNCHANGED <<soq, sresults, sdisagg>>

\* compute(): the tasks run compute_disagg, which disaggregates every site
\* with close ruptures, and agg_result keeps a matrix for each (s, m, k)
Compute ==
    /\ spc = "compute"
    /\ sresults' = {<<sid, m, k>> : sid \in {x \in 1..Len(soq.sites) :
                                               soq.sites[x].close},
                                    m \in 1..Len(Imts), k \in {0, 1}}
    /\ spc' = "post_execute"
    /\ UNCHANGED <<soq, ok_sites, slog, sdisagg>>

\* sorted(S) for a set of numbers
RECURSIVE sorted(_)
sorted(S) == IF S = {} THEN <<>> ELSE <<SetMin(S)>> \o sorted(S \ {SetMin(S)})

\* the sites with a warning on poe_agg: count[s] lets one warning by site
warned_sites ==
    {key[1] : key \in {x \in sresults : /\ soq.poe_agg_differs
                                        /\ ~soq.iml_disagg
                                        /\ x[1] \in ok_sites}}

\* post_execute, save_disagg_results: every matrix of the results is
\* written; ok_sites only decides whether the warning on poe_agg is logged
SaveDisaggResults ==
    /\ spc = "post_execute"
    /\ sdisagg' = {key[1] : key \in sresults}
    /\ slog' = slog \o
          [i \in 1..Len(sorted(warned_sites)) |->
              [msg |-> "poe_agg is quite different",
               sid |-> sorted(warned_sites)[i]]]
    /\ spc' = "done"
    /\ UNCHANGED <<soq, ok_sites, sresults>>

NextSites ==
    \/ FullDisaggregation /\ UNCHANGED <<cvars, kvars, pvars, tvars, rvars, zvars>>
                          /\ UNCHANGED <<dpc, dbins, dbdata, didx, du, dmat,
                                         epc, eoq, eedges>>
    \/ Compute /\ UNCHANGED <<cvars, kvars, pvars, tvars, rvars, zvars>>
               /\ UNCHANGED <<dpc, dbins, dbdata, didx, du, dmat,
                              epc, eoq, eedges>>
    \/ SaveDisaggResults /\ UNCHANGED <<cvars, kvars, pvars, tvars, rvars, zvars>>
                         /\ UNCHANGED <<dpc, dbins, dbdata, didx, du, dmat,
                                        epc, eoq, eedges>>

SitesIdle ==
    /\ spc = "idle" /\ soq = <<>> /\ ok_sites = {} /\ slog = <<>>
    /\ sresults = {} /\ sdisagg = {}

DIdle == BinningIdle /\ EdgesIdle /\ SitesIdle

XIdle == TIdle /\ RIdle /\ DIdle

ZIdle == UIdle /\ FIdle /\ MIdle /\ WIdle /\ GIdle /\ OIdle /\ BIdle
UOthersIdle == FIdle /\ MIdle /\ WIdle /\ GIdle /\ OIdle /\ BIdle
FOthersIdle == UIdle /\ MIdle /\ WIdle /\ GIdle /\ OIdle /\ BIdle
MOthersIdle == UIdle /\ FIdle /\ WIdle /\ GIdle /\ OIdle /\ BIdle
WOthersIdle == UIdle /\ FIdle /\ MIdle /\ GIdle /\ OIdle /\ BIdle
GOthersIdle == UIdle /\ FIdle /\ MIdle /\ WIdle /\ OIdle /\ BIdle
OOthersIdle == UIdle /\ FIdle /\ MIdle /\ WIdle /\ GIdle /\ BIdle
BOthersIdle == UIdle /\ FIdle /\ MIdle /\ WIdle /\ GIdle /\ OIdle

-----------------------------------------------------------------------------
KIdle ==
    /\ kpc = "idle" /\ kcfg = <<>> /\ krups = <<>> /\ ki = 0
    /\ kctxs = <<>> /\ klast = <<>>

PIdle ==
    /\ ppc = "idle" /\ pcfg = <<>> /\ psrcs = <<>> /\ pi = 0
    /\ pmap = <<>> /\ presult = <<>> /\ calc_times = <<>> /\ rupdata = <<>>
    /\ pmade = <<>> /\ pfolded = <<>>

NextCollapse ==
    \/ Collapse /\ UNCHANGED <<kvars, pvars, xvars, zvars>>
    \/ Combine /\ UNCHANGED <<kvars, pvars, xvars, zvars>>

InitCollapseSpec == InitCollapse /\ KIdle /\ PIdle /\ XIdle /\ ZIdle

SpecCollapse == InitCollapseSpec /\ [][NextCollapse]_vars

InitCtxSpec == CollapseIdle /\ InitCtx /\ PIdle /\ XIdle /\ ZIdle

SpecCtx == InitCtxSpec /\ [][NextCtx]_vars

InitPmapSpec == CollapseIdle /\ KIdle /\ InitPmap /\ XIdle /\ ZIdle

SpecPmap == InitPmapSpec /\ [][NextPmap]_vars

InitTaskSpec == CollapseIdle /\ KIdle /\ PIdle /\ InitTask /\ RIdle /\ DIdle /\ ZIdle

SpecTask == InitTaskSpec /\ [][NextTask]_vars

InitReduceSpec ==
    CollapseIdle /\ KIdle /\ PIdle /\ TIdle /\ InitReduce /\ DIdle /\ ZIdle

SpecReduce == InitReduceSpec /\ [][NextReduce]_vars

InitBinningSpec ==
    /\ CollapseIdle /\ KIdle /\ PIdle /\ TIdle /\ RIdle
    /\ InitBinning /\ EdgesIdle /\ SitesIdle /\ ZIdle

SpecBinning == InitBinningSpec /\ [][NextBinning]_vars

InitEdgesSpec ==
    /\ CollapseIdle /\ KIdle /\ PIdle /\ TIdle /\ RIdle
    /\ BinningIdle /\ InitEdges /\ SitesIdle /\ ZIdle

SpecEdges == InitEdgesSpec /\ [][NextEdges]_vars

InitSitesSpec ==
    /\ CollapseIdle /\ KIdle /\ PIdle /\ TIdle /\ RIdle
    /\ BinningIdle /\ EdgesIdle /\ InitSites /\ ZIdle

SpecSites == InitSitesSpec /\ [][NextSites]_vars

InitRoundupSpec ==
    CollapseIdle /\ KIdle /\ PIdle /\ XIdle /\ InitRoundup /\ UOthersIdle

SpecRoundup == InitRoundupSpec /\ [][NextRoundup]_vars

InitEffectSpec ==
    CollapseIdle /\ KIdle /\ PIdle /\ XIdle /\ InitEffect /\ FOthersIdle

SpecEffect == InitEffectSpec /\ [][NextEffect]_vars

InitPmfSpec ==
    CollapseIdle /\ KIdle /\ PIdle /\ XIdle /\ InitPmf /\ MOthersIdle

SpecPmf == InitPmfSpec /\ [][NextPmf]_vars

InitArraysSpec ==
    CollapseIdle /\ KIdle /\ PIdle /\ XIdle /\ InitArrays /\ WOthersIdle

SpecArrays == InitArraysSpec /\ [][NextArrays]_vars

InitMagbinSpec ==
    CollapseIdle /\ KIdle /\ PIdle /\ XIdle /\ InitMagbin /\ GOthersIdle

SpecMagbin == InitMagbinSpec /\ [][NextMagbin]_vars

InitTomSpec ==
    CollapseIdle /\ KIdle /\ PIdle /\ XIdle /\ InitTom /\ OOthersIdle

SpecTom == InitTomSpec /\ [][NextTom]_vars

InitEpsSpec ==
    CollapseIdle /\ KIdle /\ PIdle /\ XIdle /\ InitEps /\ BOthersIdle

SpecEps == InitEpsSpec /\ [][NextEps]_vars

-----------------------------------------------------------------------------
(* Claims on the collapse functions *)

ParamOf(ctxs) == SelectSeq(ctxs, IsParam)
NonParamOf(ctxs) == SelectSeq(ctxs, IsNonParam)

\* C1: collapse invariance. For every list of contexts (parametric only,
\* nonparametric only or mixed) and every conditional poe, the composed
\* probability 1 - PRODUCT(pne) of the list equals that of _collapse(list).
C1_CollapseInvariance ==
    cpc = "collapsed" => compose(cctxs, cpoe) = compose(cout, cpoe)

\* a mixed list of three contexts was merged into two, with a poe in (0, 1)
C1_Witness ==
    /\ cpc = "collapsed"
    /\ Len(cctxs) = 3 /\ Len(cout) = 2
    /\ Len(ParamOf(cctxs)) = 2 /\ Len(NonParamOf(cctxs)) = 1
    /\ cpoe = 1
    /\ compose(cout, cpoe) # RZero

\* the PMF of the sum of independent counts, entry by entry
Conv2(a, b) ==
    [k \in 1..(Len(a) + Len(b) - 1) |->
        RSum([i \in 1..Len(a) |->
                IF k + 1 - i \in 1..Len(b) THEN RMul(a[i], b[k + 1 - i])
                ELSE RZero])]
RECURSIVE ConvAll(_)
ConvAll(ps) == IF Len(ps) = 1 THEN ps[1] ELSE Conv2(Head(ps), ConvAll(Tail(ps)))

RECURSIVE RateTotal(_, _)
RateTotal(ctxs, n) ==
    IF n = 0 THEN 0
    ELSE RateTotal(ctxs, n - 1)
         + (IF IsParam(ctxs[n]) THEN ctxs[n].occurrence_rate ELSE 0)

\* C3: within one group _collapse returns at most one parametric context,
\* whose rate is the sum of the rates of all and only the parametric members,
\* and at most one nonparametric context, whose PMF is the convolution of the
\* PMFs of all and only the nonparametric members; both kinds are retained
\* when both are present and the output is never longer than the input.
C3_CollapseGroup ==
    cpc = "collapsed" =>
        LET pin == ParamOf(cctxs)
            nin == NonParamOf(cctxs)
            po == ParamOf(cout)
            no == NonParamOf(cout)
        IN /\ Len(cout) <= Len(cctxs)
           /\ Len(po) = (IF pin = <<>> THEN 0 ELSE 1)
           /\ Len(no) = (IF nin = <<>> THEN 0 ELSE 1)
           /\ po # <<>> => po[1].occurrence_rate = RateTotal(cctxs, Len(cctxs))
           /\ no # <<>> =>
                 no[1].probs_occur =
                     ConvAll([i \in 1..Len(nin) |-> nin[i].probs_occur])

\* two parametric and two nonparametric members gave one context of each kind
C3_Witness ==
    /\ cpc = "collapsed"
    /\ Len(ParamOf(cctxs)) >= 2 /\ Len(NonParamOf(cctxs)) >= 1
    /\ Len(cout) = 2
    /\ ParamOf(cout)[1].occurrence_rate = 3

\* C4: combine_pmf is commutative, associative and mass-preserving.
C4_CombinePmfAlgebra ==
    cpc = "combined" =>
        /\ comb.ab = comb.ba
        /\ comb.ab_c = comb.a_bc
        /\ RSum(comb.ab) = ROne
        /\ RSum(comb.ab_c) = ROne

\* three PMFs of two entries each, no entry being 0, were combined
C4_Witness ==
    /\ cpc = "combined"
    /\ \A n \in 1..3 : Len(pmfs[n]) = 2 /\ \A i \in 1..2 : pmfs[n][i] # RZero
    /\ pmfs[1] # pmfs[2]
    /\ Len(comb.ab_c) = 4

-----------------------------------------------------------------------------
(* Claims on the context builder *)

\* the rrup distance of a rupture to a site, from the geometry
Rrup(rup, sid) ==
    IF HasSurface(rup) THEN Max(0, Abs(SitePos[sid] - rup.hypo) - rup.ext)
    ELSE Abs(SitePos[sid] - rup.hypo)
\* the sites of the collection within the maximum distance of a rupture
Near(rup) ==
    {sid \in 1..Len(SitePos) : Rrup(rup, sid) <= maximum_distance(rup.mag)}

\* C8: filter keeps exactly the sites whose rrup distance is less than or
\* equal to the magnitude-dependent maximum distance (a site exactly at the
\* threshold is kept, a site one unit beyond is dropped), in the order of the
\* site collection, and returns the distances of the kept sites in that order.
C8_FilterBoundary ==
    (klast # <<>> /\ klast.op = "filter" /\ Near(krups[ki]) # {}) =>
        LET out == klast.out
            rup == krups[ki]
        IN /\ out.err = ""
           /\ {out.sites[i] : i \in 1..Len(out.sites)} = Near(rup)
           /\ \A i, j \in 1..Len(out.sites) :
                 i < j => out.sites[i] < out.sites[j]
           /\ Len(out.dctx.rrup) = Len(out.sites)
           /\ \A i \in 1..Len(out.sites) :
                 out.dctx.rrup[i] = Rrup(rup, out.sites[i])

\* filter ran on a rupture with one site exactly at the threshold, which it
\* kept, and the other site one unit beyond, which it dropped
C8_Witness ==
    /\ klast # <<>> /\ klast.op = "filter"
    /\ Rrup(krups[ki], 1) = maximum_distance(krups[ki].mag)
    /\ Rrup(krups[ki], 2) = maximum_distance(krups[ki].mag) + 1
    /\ klast.out.sites = <<1>>
    /\ klast.out.dctx.rrup = <<maximum_distance(krups[ki].mag)>>

\* C9: filter raises FarAwayRupture exactly when no site is within the
\* threshold, and make_ctxs skips only such ruptures: it returns exactly one
\* context for each input rupture with a surviving site, in input order.
C9_FarAwaySkipped ==
    /\ (klast # <<>> /\ klast.op = "filter") =>
          (klast.out.err = "FarAwayRupture" <=> Near(krups[ki]) = {})
    /\ kpc = "done" =>
          LET kept == SelectSeq(krups, LAMBDA r : Near(r) # {})
          IN /\ Len(kctxs) = Len(kept)
             /\ \A i \in 1..Len(kept) :
                   /\ kctxs[i].rup_id = kept[i].rup_id
                   /\ {kctxs[i].sids[n] : n \in 1..Len(kctxs[i].sids)}
                         = Near(kept[i])

\* make_ctxs skipped a first rupture that was too far and built the context
\* of the second one
C9_Witness ==
    /\ kpc = "done"
    /\ Len(krups) = 2
    /\ Near(krups[1]) = {} /\ Near(krups[2]) # {}
    /\ Len(kctxs) = 1 /\ kctxs[1].rup_id = 2

UnknownRequired(cmaker) ==
    \/ ~(cmaker.REQUIRES_DISTANCES \subseteq KnownSurfaceDistances)
    \/ ~(cmaker.REQUIRES_RUPTURE_PARAMETERS \subseteq KnownRuptureParameters)

\* C10: whenever a ground-motion model requires a distance or a rupture
\* parameter that is not known, building the contexts of any rupture fails
\* with a ValueError: make_contexts never returns normally and never raises
\* FarAwayRupture, and make_ctxs on a non-empty list never returns.
C10_UnknownAlwaysFatal ==
    UnknownRequired(kcfg.cmaker) =>
        /\ (klast # <<>> /\ klast.op = "make_contexts") =>
              klast.out.err = "ValueError"
        /\ (kpc = "done" => krups = <<>>)


\* the distance measures the ground-motion models declare, plus rrup
DeclaredDistances == kcfg.gsims_distances \cup {"rrup"}
\* the distance measures attached to what make_contexts / make_ctxs return
AttachedAre(names) ==
    /\ (klast # <<>> /\ klast.op = "make_contexts" /\ klast.out.err = "") =>
          DOMAIN klast.out.dctx = names
    /\ kpc = "done" =>
          \A n \in 1..Len(kctxs) : DOMAIN kctxs[n].dist = names

-----------------------------------------------------------------------------
(* Claims on the probability map composer *)

AllSids == {sitecol[i] : i \in 1..Len(sitecol)}
HasSid(ctx, sid) == \E i \in 1..Len(ctx.sids) : ctx.sids[i] = sid
CtxsAt(ctxs, sid) == SelectSeq(ctxs, LAMBDA c : HasSid(c, sid))
\* the no-exceedance probability of a context at one of its sites
PneAt(ctx, sid) ==
    get_probability_no_exceedance(ctx,
        gsim_get_poes(ctx, CHOOSE i \in 1..Len(ctx.sids) : ctx.sids[i] = sid))
PnesAt(ctxs, sid) ==
    [n \in 1..Len(CtxsAt(ctxs, sid)) |-> PneAt(CtxsAt(ctxs, sid)[n], sid)]
\* the value of a map of no-exceedance probabilities at a site
PneOf(probmap, sid) == IF sid \in DOMAIN probmap THEN probmap[sid] ELSE ROne
\* the value of a map of exceedance probabilities at a site
PoeOf(probmap, sid) == IF sid \in DOMAIN probmap THEN probmap[sid] ELSE RZero
AllFolded == Flatten([n \in 1..Len(pfolded) |-> pfolded[n].ctxs])

\* the required distances are exact at the rounding precision of the level:
\* a tenth of a kilometre below level 3, a kilometre from level 3 on
ExactDistances(ctxs, level) ==
    level < 3 \/ \A n \in 1..Len(ctxs) : \A i \in 1..Len(ctxs[n].sids) :
                    ctxs[n].dist["rrup"][i] % 2 = 0

\* C2: collapse_the_ctxs preserves the hazard per site. For the contexts of
\* every unit of work whose distances are exact at the rounding precision,
\* whatever the surviving sites of each context, folding the collapsed
\* contexts with the independent-rupture rule gives at every site the same
\* no-exceedance value as folding the contexts as they were built.
C2_CollapsePreservesHazard ==
    (ppc \in {"loop", "done"} /\ pcfg.rup_indep
        /\ pcfg.cmaker.collapse_level > 1) =>
        \A n \in 1..Len(pfolded) :
            ExactDistances(pmade[n], pcfg.cmaker.collapse_level) =>
                \A sid \in AllSids :
                    PneOf(_update_pmap(TRUE, pfolded[n].ctxs, EmptyPmap), sid)
                      = PneOf(_update_pmap(TRUE, pmade[n], EmptyPmap), sid)

SourcePoe(ctxs, sid) ==
    IF pcfg.rup_indep THEN RSub(ROne, RProd(PnesAt(ctxs, sid)))
    ELSE RSum([n \in 1..Len(CtxsAt(ctxs, sid)) |->
                 RMul(RSub(ROne, PneAt(CtxsAt(ctxs, sid)[n], sid)),
                      CtxsAt(ctxs, sid)[n].weight)])

\* C6: mutually exclusive sources. The value returned by make() at a site is
\* the sum over the sources of mutex_weight * (exceedance probability of the
\* contexts of that source alone, 1 - product of their no-exceedance
\* probabilities when the ruptures are independent): every source is folded
\* into a map of its own.
C6_SrcMutexSum ==
    (ppc = "done" /\ pcfg.src_mutex) =>
        \A sid \in AllSids :
            PoeOf(presult, sid) =
                RSum([n \in 1..Len(pfolded) |->
                        RMul(psrcs[pfolded[n].src_id].mutex_weight,
                             SourcePoe(pfolded[n].ctxs, sid))])

\* two mutually exclusive sources with independent ruptures contribute to
\* the same site
C6_Witness ==
    /\ ppc = "done" /\ pcfg.src_mutex /\ pcfg.rup_indep
    /\ Len(pfolded) >= 2
    /\ \E sid \in AllSids :
          /\ CtxsAt(pfolded[1].ctxs, sid) # <<>>
          /\ CtxsAt(pfolded[2].ctxs, sid) # <<>>
          /\ RLe(presult[sid], ROne) /\ presult[sid] # ROne

\* an iteration of the loop over the sources has just run
LoopRan == ppc = "loop" /\ ppc' = "loop" /\ pi' = pi + 1

\* C12: a source all of whose ruptures are filtered away is silently
\* skipped. The iteration that builds no context for its source(s) raises
\* nothing, leaves self.pmap exactly as it was and goes on to the next
\* source, for independent and for mutually exclusive sources.
C12_FarSourceSkipped ==
    [][(LoopRan /\ pfolded'[Len(pfolded')].ctxs = <<>>) =>
          /\ pmap' = pmap
          /\ Len(pfolded') = Len(pfolded) + 1
          /\ presult' = presult]_vars

\* mutually exclusive sources: the second source had close sites but none of
\* its ruptures survived, and the map built from the first source is intact
C12_Witness ==
    /\ ppc = "loop" /\ pcfg.src_mutex /\ pcfg.rup_indep
    /\ Len(pfolded) = 2
    /\ pfolded[1].ctxs # <<>>
    /\ pfolded[2].ctxs = <<>> /\ pfolded[2].sites # <<>>
    /\ pmap # EmptyPmap

\* C7: every value of the map returned by make() lies in [0, 1], whatever the
\* two interdependence flags of the group.
C7_ValuesInUnitInterval ==
    ppc = "done" => \A sid \in DOMAIN presult : In01(presult[sid])

-----------------------------------------------------------------------------
(* Claims on the weighted task partitioner *)

IsSubtask(y) == y.kind = "subtask"
Subtasks == SelectSeq(tyielded, IsSubtask)
\* the weight the sources are split at: a fifth of params['max_weight'] when
\* the sources are split, half of it otherwise
SplitWeight ==
    IF tparams.split_sources THEN tparams.max_weight \div 5
    ELSE tparams.max_weight \div 2
\* the sources of all the blocks yielded, subtasks and final result
AllYielded == Flatten([n \in 1..Len(tyielded) |-> tyielded[n].block])
InBlock(src, block) == \E k \in 1..Len(block) : block[k].id = src.id

C14_WeightConservation ==
    tpc = "done" =>
        /\ Len(AllYielded) = Len(tsources)
        /\ \A n \in 1..Len(tsources) :
              Cardinality({k \in 1..Len(AllYielded) :
                              AllYielded[k] = tsources[n]}) = 1
        /\ sum_weights(AllYielded) = sum_weights(tsources)

\* subtasks were yielded and the light block holds the last block and the
\* sources of a block that was too light
C14_Witness ==
    /\ tpc = "done"
    /\ Len(Subtasks) >= 1
    /\ Len(tlight) > Len(tblocks[Len(tblocks)])
    /\ sum_weights(tsources) > 0

\* C15: no block lighter than min_weight is yielded as a subtask; the
\* sources of such blocks are in the single final result, which is yielded
\* last, after all the subtasks; without sources exactly one empty result
\* and no subtask is yielded.
C15_LightNeverSubtask ==
    /\ \A n \in 1..Len(Subtasks) :
          sum_weights(Subtasks[n].block) >= tparams.min_weight
    /\ (tpc = "done" /\ tsources # <<>>) =>
          /\ tyielded[Len(tyielded)].kind = "result"
          /\ \A n \in 1..(Len(tyielded) - 1) : tyielded[n].kind = "subtask"
          /\ \A b \in 1..(Len(tblocks) - 1) :
                sum_weights(tblocks[b]) < tparams.min_weight =>
                    \A k \in 1..Len(tblocks[b]) :
                        InBlock(tblocks[b][k], tyielded[Len(tyielded)].block)
    /\ (tpc = "done" /\ tsources = <<>>) =>
          tyielded = <<[kind |-> "empty", block |-> <<>>]>>

\* a block lighter than min_weight came before a block that became a
\* subtask: its sources were computed with the final result
C15_Witness ==
    /\ tpc = "done"
    /\ Len(tblocks) = 3
    /\ sum_weights(tblocks[1]) < tparams.min_weight
    /\ Len(Subtasks) = 1 /\ Subtasks[1].block = tblocks[2]
    /\ InBlock(tblocks[1][1], tyielded[Len(tyielded)].block)

YieldedAsSubtask(block) ==
    \E n \in 1..Len(Subtasks) : Subtasks[n].block = block

\* C16: every block of the splitter with a total weight at or above
\* min_weight is yielded as a subtask, wherever it is in the sequence of
\* blocks, the last block included.
C16_HeavyAlwaysSubtask ==
    tpc = "done" =>
        \A b \in 1..Len(tblocks) :
            sum_weights(tblocks[b]) >= tparams.min_weight =>
                YieldedAsSubtask(tblocks[b])

\* C16 as amended: every block but the last one with a total weight at or
\* above min_weight is yielded as a subtask; the last block is computed
\* with the final result whatever its weight.
C16_HeavyButLastSubtask ==
    tpc = "done" =>
        /\ \A b \in 1..(Len(tblocks) - 1) :
              sum_weights(tblocks[b]) >= tparams.min_weight =>
                  YieldedAsSubtask(tblocks[b])
        /\ tblocks # <<>> =>
              /\ ~YieldedAsSubtask(tblocks[Len(tblocks)])
              /\ \A k \in 1..Len(tblocks[Len(tblocks)]) :
                    InBlock(tblocks[Len(tblocks)][k],
                            tyielded[Len(tyielded)].block)

\* a block weighing exactly min_weight became a subtask, and the last block,
\* heavier than min_weight, was computed with the final result
C16_Witness ==
    /\ tpc = "done"
    /\ Len(tblocks) >= 2
    /\ sum_weights(tblocks[1]) = tparams.min_weight
    /\ YieldedAsSubtask(tblocks[1])
    /\ sum_weights(tblocks[Len(tblocks)]) > tparams.min_weight
    /\ tyielded[Len(tyielded)].kind = "result"

-----------------------------------------------------------------------------
(* Claim C17 *)

\* the results that arrived, in the order of their submission
Arrived == SelectSeq([n \in 1..Len(rresults) |-> n], LAMBDA n : n \notin rpending)

\* the partial matrices received for the key (s, m, k) and (trti, magi)
Received(key, tm) ==
    LET from == SelectSeq(Arrived, LAMBDA n :
                    /\ <<rresults[n].trti, rresults[n].magi>> = tm
                    /\ <<key[1], key[2]>> \in DOMAIN rresults[n].data)
    IN [i \in 1..Len(from) |->
            rresults[from[i]].data[<<key[1], key[2]>>][key[3] + 1]]

\* 1 - PRODUCT(1 - x) over the matrices xs, cell by cell
Composed(xs) ==
    [c \in 1..Len(xs[1]) |->
        RSub(ROne, RProd([i \in 1..Len(xs) |-> RSub(ROne, xs[i][c])]))]
\* their sum, cell by cell
Summed(xs) == [c \in 1..Len(xs[1]) |-> RSum([i \in 1..Len(xs) |-> xs[i][c]])]

\* agg_dicts folded over the results ns, in that order
RECURSIVE InOrder(_, _)
InOrder(st, ns) ==
    IF ns = <<>> THEN st
    ELSE InOrder(agg_dicts(rcfg, st, rresults[Head(ns)]), Tail(ns))

ClassicalAcc0 ==
    [acc |-> [pmaps |-> <<>>, eff_ruptures |-> <<>>],
     self |-> [totrups |-> 0, maxradius |-> 0, calc_times |-> <<>>,
               by_task |-> <<>>]]

-----------------------------------------------------------------------------
(* Claim C18 *)

\* x lies in the bin i (from 0) of increasing edges: [low, high), and the
\* last edge belongs to the last bin
Contains(bins, i, x) ==
    /\ i \in 0..(Len(bins) - 2)
    /\ \/ bins[i + 1] <= x /\ x < bins[i + 2]
       \/ i = Len(bins) - 2 /\ x = bins[Len(bins)]

\* the same for a longitude, going east from the edge low to the edge high
ContainsLon(bins, i, lon) ==
    /\ i \in 0..(Len(bins) - 2)
    /\ \/ /\ get_longitudinal_extent(bins[i + 1], lon) >= 0
          /\ get_longitudinal_extent(bins[i + 1], lon)
               < get_longitudinal_extent(bins[i + 1], bins[i + 2])
       \/ /\ i = Len(bins) - 2
          /\ get_longitudinal_extent(lon, bins[Len(bins)]) = 0

\* the rupture has its distance, longitude and latitude in the cell
InCell(rup, cell) ==
    /\ Contains(dbins.dist, cell[1], rup.dist)
    /\ ContainsLon(dbins.lon, cell[2], rup.lon)
    /\ Contains(dbins.lat, cell[3], rup.lat)

\* 1 - PRODUCT of the no-exceedance values of the ruptures of the cell
CellValue(cell) ==
    LET inside == SelectSeq(dbdata, LAMBDA rup : InCell(rup, cell))
    IN RSub(ROne, RProd([u \in 1..Len(inside) |-> inside[u].pne]))

OnLastEdgeAcross(u) ==
    /\ cross_idl(dbins.lon[1], dbins.lon[Len(dbins.lon)])
    /\ get_longitudinal_extent(dbdata[u].lon, dbins.lon[Len(dbins.lon)]) = 0

\* the same property without the ruptures on the last edge of longitude
\* edges that cross the antimeridian
C18_BinningButLastEdgeAcross ==
    /\ dpc \in {"accumulate", "done"} =>
         \A u \in 1..Len(dbdata) :
            /\ Contains(dbins.dist, didx[u].dist, dbdata[u].dist)
            /\ ~OnLastEdgeAcross(u) =>
                  ContainsLon(dbins.lon, didx[u].lon, dbdata[u].lon)
            /\ Contains(dbins.lat, didx[u].lat, dbdata[u].lat)
    /\ (dpc = "done" /\ \A u \in 1..Len(dbdata) : ~OnLastEdgeAcross(u)) =>
         \A cell \in DOMAIN dmat : dmat[cell] = CellValue(cell)

-----------------------------------------------------------------------------
(* Claim C19 *)

\* the magnitudes given to the computation of the edges
InputMags == UNION {eoq.mags_by_trt[trt] : trt \in DOMAIN eoq.mags_by_trt}

\* the edges cover the values: edges[0] <= x <= edges[last]
Covers(edges, xs) ==
    /\ edges # <<>>
    /\ \A x \in xs : edges[1] <= x /\ x <= edges[Len(edges)]

\* C19: the magnitude edges define at least one bin and cover every input
\* magnitude; the distance edges of get_edges_shapedic cover every distance
\* from 0 to the largest maximum distance
C19_BinCoverage ==
    epc = "done" =>
        /\ Len(eedges.mag) >= 2
        /\ Covers(eedges.mag, InputMags)
        /\ eoq.dists = {} =>
              /\ Len(eedges.dist) >= 2
              /\ Covers(eedges.dist,
                        0..SetMax({eoq.maximum_distance[trt] :
                                     trt \in DOMAIN eoq.mags_by_trt}))

\* every magnitude is the same multiple of the bin width
OneAlignedMag ==
    /\ Cardinality(InputMags) = 1
    /\ \A m \in InputMags : m % eoq.mag_bin_width = 0

\* the same coverage, with at least one magnitude bin unless all the
\* magnitudes are one multiple of the bin width
C19_CoverageButAlignedMag ==
    epc = "done" =>
        /\ Len(eedges.mag) >= 2 <=> ~OneAlignedMag
        /\ Covers(eedges.mag, InputMags)
        /\ eoq.dists = {} =>
              /\ Len(eedges.dist) >= 2
              /\ Covers(eedges.dist,
                        0..SetMax({eoq.maximum_distance[trt] :
                                     trt \in DOMAIN eoq.mags_by_trt}))

-----------------------------------------------------------------------------
(* Claim C20 *)

\* a requested poe exceeds the largest probability of one of the hazard
\* curves of the site
BadSite(sid) ==
    /\ ~soq.iml_disagg
    /\ \E z \in 1..Len(soq.sites[sid].curves) :
         /\ soq.sites[sid].curves[z] # None
         /\ \E i \in 1..Len(Imts), p \in 1..Len(soq.poes_disagg) :
               soq.poes_disagg[p] > curve_max(soq.sites[sid].curves[z][Imts[i]])

Warned(sid) ==
    \E i \in 1..Len(slog) : slog[i].msg = "POE_TOO_BIG" /\ slog[i].sid = sid

Checked == spc \in {"compute", "post_execute", "done", "SystemExit"}

\* C20: a site with a requested poe above the largest probability of one
\* of its hazard curves gets a warning and has no disaggregation result,
\* computed or stored; the other sites are disaggregated; when every site is
\* excluded the calculation is aborted
C20_BadSiteExcluded ==
    /\ Checked => \A sid \in 1..Len(soq.sites) : BadSite(sid) => Warned(sid)
    /\ spc \in {"post_execute", "done"} =>
         \A sid \in 1..Len(soq.sites) :
            BadSite(sid) => /\ \A key \in sresults : key[1] # sid
                            /\ sid \notin sdisagg
    /\ spc = "done" =>
         \A sid \in 1..Len(soq.sites) :
            (~BadSite(sid) /\ soq.sites[sid].close) => sid \in sdisagg
    /\ (Checked /\ \A sid \in 1..Len(soq.sites) : BadSite(sid)) =>
         spc = "SystemExit"

\* what holds of such a site: it gets a warning, it is out of ok_sites, the
\* calculation is aborted when no site is ok, and every site with close
\* ruptures is disaggregated and stored, the sites out of ok_sites included
C20_BadSiteWarnedOnly ==
    /\ Checked => \A sid \in 1..Len(soq.sites) :
                     BadSite(sid) => Warned(sid) /\ sid \notin ok_sites
    /\ spc = "done" =>
         sdisagg = {sid \in 1..Len(soq.sites) : soq.sites[sid].close}
    /\ (Checked /\ \A sid \in 1..Len(soq.sites) : BadSite(sid)) =>
         spc = "SystemExit"

-----------------------------------------------------------------------------
(* Claim C21 *)

\* the values of the attribute nm of a context
ArrayOf(ctx, nm) == uheap[ctx.attrs[nm]].data

\* the attributes that roundup takes for distances
Distances(ctx) ==
    IF ctx.class = "DistancesContext" THEN DOMAIN ctx.attrs
    ELSE DOMAIN ctx.attrs \cap KNOWN_DISTANCES

\* the second roundup gives the distances of the first one
SameTwice ==
    upc = "twice" =>
        \A nm \in DOMAIN uctx.attrs : ArrayOf(utwice, nm) = ArrayOf(uonce, nm)

\* the arrays of the original context are as they were built
OriginalKept ==
    upc \in {"once", "twice"} =>
        \A nm \in DOMAIN uctx.attrs :
            uheap[uctx.attrs[nm]] = uheap0[uctx.attrs[nm]]

\* in the result a value below m is m, a value at or above m is unchanged
RoundedUp ==
    \A nm \in Distances(uctx) : \A i \in 1..Len(uheap0[uctx.attrs[nm]].data) :
        LET old == uheap0[uctx.attrs[nm]].data[i]
        IN ArrayOf(uonce, nm)[i] = IF old < um THEN um ELSE old

\* C21 as stated: for any context and any minimum_distance m, rounding up
\* twice gives the distances of rounding up once, in the result every
\* distance below m is m and the others are unchanged, and the arrays of the
\* original context are not modified
C21_RoundupIdempotent ==
    /\ SameTwice
    /\ OriginalKept
    /\ upc \in {"once", "twice"} => RoundedUp

\* C21 amended: the same for a nonzero minimum_distance; with a
\* minimum_distance of 0 the context itself is returned, with the values it
\* has, negative ones included
C21_RoundupIdempotentNonzero ==
    /\ SameTwice
    /\ OriginalKept
    /\ (upc \in {"once", "twice"} /\ um # 0) => RoundedUp
    /\ (upc \in {"once", "twice"} /\ um = 0) => uonce = uctx

\* a context with a distance below a nonzero minimum and one above it was
\* rounded up twice, and the rounded array is a copy
C21_Witness ==
    /\ upc = "twice"
    /\ um # 0
    /\ \E nm \in Distances(uctx) :
         /\ \E i \in 1..Len(uheap0[uctx.attrs[nm]].data) :
               uheap0[uctx.attrs[nm]].data[i] < um
         /\ \E i \in 1..Len(uheap0[uctx.attrs[nm]].data) :
               uheap0[uctx.attrs[nm]].data[i] > um
         /\ uonce.attrs[nm] # uctx.attrs[nm]
         /\ utwice.attrs[nm] = uonce.attrs[nm]

-----------------------------------------------------------------------------
(* Claim C22 *)

\* the points i and j of the table are neighbours in intensity around x
Neighbours(a, i, j, x) ==
    /\ a[i] < a[j] /\ a[i] <= x /\ x <= a[j]
    /\ ~ \E k \in 1..Len(a) : a[i] < a[k] /\ a[k] < a[j]

\* d lies on the line through the points i and j of the table, at x
OnLine(d, a, dists, i, j, x) ==
    d[1] * (a[j] - a[i]) =
        d[2] * (dists[i] * (a[j] - a[i]) + (x - a[i]) * (dists[j] - dists[i]))

\* the rational d is within half a hundredth of c hundredths
About(d, c) == /\ (2 * c - 1) * d[2] <= 200 * d[1]
               /\ 200 * d[1] <= (2 * c + 1) * d[2]

\* C22: dist_by_mag(intensity) returns for every magnitude the largest
\* distance when the intensity is below all intensities of the magnitude,
\* the smallest distance when it is above all of them, and otherwise the
\* distance linearly interpolated between the two neighbouring (intensity,
\* distance) points; for the test table it returns 50 for every magnitude at
\* intensity 0 and about 12, 15, 19.68, 20 at intensity 0.9
C22_DistByMag ==
    fpc = "done" =>
        /\ \A mag \in DOMAIN feffect.effect_by_mag :
             LET a == feffect.effect_by_mag[mag]
                 n == Len(feffect.dists)
             IN /\ (\A i \in 1..n : fintensity < a[i])
                      => fdst[mag] = <<feffect.dists[n], 1>>
                /\ (\A i \in 1..n : fintensity > a[i])
                      => fdst[mag] = <<feffect.dists[1], 1>>
                /\ (/\ \E i \in 1..n : fintensity >= a[i]
                    /\ \E i \in 1..n : fintensity <= a[i])
                      => \E i, j \in 1..n :
                            /\ Neighbours(a, i, j, fintensity)
                            /\ OnLine(fdst[mag], a, feffect.dists, i, j,
                                      fintensity)
        /\ (feffect = TestEffect /\ fintensity = 0)
              => \A mag \in DOMAIN fdst : fdst[mag] = <<50, 1>>
        /\ (feffect = TestEffect /\ fintensity = 90)
              => /\ About(fdst["4.5"], 1200) /\ About(fdst["5.0"], 1500)
                 /\ About(fdst["5.5"], 1968) /\ About(fdst["6.0"], 2000)

\* the test table was asked for the intensity 0.9, and a distance was
\* interpolated strictly between two points
C22_Witness ==
    /\ fpc = "done" /\ feffect = TestEffect /\ fintensity = 90
    /\ fdst["5.5"] = <<610, 31>>

-----------------------------------------------------------------------------
(* Claim C23 *)

\* the axes of the matrix of disaggregation() that a key of pmf_map selects
SelectedAxes(name) ==
    CASE name = "Mag" -> {0}
      [] name = "Dist" -> {1}
      [] name = "TRT" -> {5}
      [] name = "Mag_Dist" -> {0, 1}
      [] name = "Mag_Dist_Eps" -> {0, 1, 4}
      [] name = "Lon_Lat" -> {2, 3}
      [] name = "Mag_Lon_Lat" -> {0, 2, 3}
      [] name = "Lon_Lat_TRT" -> {2, 3, 5}

\* out is x indexed by the axes sel only, the other axes being composed
\* with 1 - PRODUCT(1 - x)
ProjectionOn(out, x, sel) ==
    LET pos == SelectSeq([p \in 1..6 |-> p], LAMBDA p : (p - 1) \in sel)
        shape == [k \in 1..Len(pos) |-> x.shape[pos[k]]]
    IN /\ out.shape = shape
       /\ DOMAIN out.data = Indices(shape)
       /\ \A idx \in Indices(shape) :
             out.data[idx] =
                 RSub(ROne, prod_1m(x, {c \in Indices(x.shape) :
                                \A k \in 1..Len(pos) : c[pos[k]] = idx[k]}))

\* C23: every extractor of pmf_map, given the matrix of disaggregation()
\* (axes magnitude, distance, longitude, latitude, epsilon, TRT), returns an
\* array indexed only by the axes its name selects, every other axis being
\* collapsed with 1 - PRODUCT(1 - x), and does not modify its input
C23_Projection ==
    mpc = "done" =>
        /\ ProjectionOn(mout, mmatrix0, SelectedAxes(mname))
        /\ mmatrix = mmatrix0

\* what holds instead: the extractors without TRT in their name keep the TRT
\* axis too, 'TRT' returns an array indexed by magnitude, and the input is
\* not modified
C23_ProjectionKeepsTrt ==
    mpc = "done" =>
        /\ mname \notin {"TRT", "Lon_Lat_TRT"}
              => ProjectionOn(mout, mmatrix0, SelectedAxes(mname) \cup {5})
        /\ mname = "TRT" => ProjectionOn(mout, mmatrix0, {0})
        /\ mmatrix = mmatrix0

-----------------------------------------------------------------------------
(* Claim C24 *)

\* the sum of o1[i] * o2[j] over the pairs of indices (from 0) with
\* i + j = k
Convolution(o1, o2, k) ==
    RSum([i \in 1..Len(o1) |->
            IF (k + 2 - i) \in 1..Len(o2) THEN RMul(o1[i], o2[k + 2 - i])
            ELSE RZero])

-----------------------------------------------------------------------------
(* Claim C25 *)

\* make_ctxs returned a context for the rupture
Attached == wpc = "done" /\ wctx.err = ""

\* the distances replaced by the equivalent distance
Substituted ==
    IF wcmaker.reqv /\ wrup.surface = "planar"
    THEN {"rjb", "rrup"} \cap wcmaker.REQUIRES_DISTANCES ELSE {}

\* C25: every distance array attached to a context returned by make_ctxs is
\* write-protected, the rrup array after the site filter and the arrays
\* replaced by the equivalent distance included
C25_WriteProtected ==
    Attached => \A par \in DOMAIN wctx.dist : ~wctx.dist[par].writeable

\* what holds instead: the arrays that come straight from get_distances are
\* write-protected; rrup, which is distances[mask], and the arrays of the
\* equivalent distance are writeable
C25_WriteProtectedButMasked ==
    Attached =>
        \A par \in DOMAIN wctx.dist :
            wctx.dist[par].writeable <=> par \in Substituted \cup {"rrup"}

-----------------------------------------------------------------------------
(* Claim C26 *)

\* the magnitude bins
NBins == Len(gbins) - 1

\* the bin of a magnitude under the half-open convention [low, high), the
\* upper edge of the last bin belonging to the last bin
HalfOpenBin(mag, b) ==
    /\ gbins[b + 1] <= mag
    /\ mag < gbins[b + 2] \/ (b = NBins - 1 /\ mag = gbins[b + 2])

\* the bin (from 0) where _magbin_groups put the rupture i
GroupOf(i) ==
    CHOOSE b \in 0..(NBins - 1) :
        \E n \in 1..Len(ggroups.groups[b + 1]) : ggroups.groups[b + 1][n] = i

\* C26: magnitude binning is half-open [low, high): a rupture whose
\* magnitude equals the lower edge of bin i is assigned to bin i, and the
\* magnitude-bin index is always within 0..nbins-1, both in _magbin_groups
\* and in the magi of compute_disagg
C26_MagHalfOpen ==
    /\ gpc = "grouped" =>
          /\ ggroups.err = ""
          /\ \A i \in 1..Len(gmags) :
                /\ \E b \in 0..(NBins - 1) :
                      \E n \in 1..Len(ggroups.groups[b + 1]) :
                          ggroups.groups[b + 1][n] = i
                /\ HalfOpenBin(gmags[i], GroupOf(i))
    /\ gpc = "computed" =>
          /\ gmagi \in 0..(NBins - 1)
          /\ HalfOpenBin(gmagstr, gmagi)

\* the bin of a magnitude as the code computes it: (low, high], the lowest
\* edge belonging to the first bin
HalfClosedBin(mag, b) ==
    /\ gbins[b + 1] < mag \/ (b = 0 /\ mag = gbins[b + 1])
    /\ mag <= gbins[b + 2]

\* what holds instead, when there is a bin at all: compute_disagg takes the
\* bins as (low, high] with the lowest edge in the first bin, and
\* _magbin_groups does the same but puts a magnitude on the lowest edge in
\* the last bin; without a bin _magbin_groups raises an IndexError and
\* compute_disagg returns 0
C26_MagHalfClosed ==
    /\ (gpc = "grouped" /\ NBins = 0) => ggroups.err = "IndexError"
    /\ (gpc = "grouped" /\ NBins > 0) =>
          /\ ggroups.err = ""
          /\ \A i \in 1..Len(gmags) :
                IF gmags[i] = gbins[1] THEN GroupOf(i) = NBins - 1
                ELSE HalfClosedBin(gmags[i], GroupOf(i))
    /\ (gpc = "computed" /\ NBins = 0) => gmagi = 0
    /\ (gpc = "computed" /\ NBins > 0) => HalfClosedBin(gmagstr, gmagi)

-----------------------------------------------------------------------------
(* Claim C27 *)

\* the temporal occurrence model of the sources of a tectonic region type
ModelOf(trt) == osrcs[trt][1].temporal_occurrence_model

\* C27: in disaggregation(), when the sources of different tectonic region
\* types carry different temporal occurrence models, the no-exceedance
\* probability of every parametric context is computed with the model of
\* its own tectonic region type, not with the model last assigned to the
\* class field
C27_OwnTom ==
    \A trt \in DOMAIN obdata : \A u \in 1..Len(obdata[trt]) :
        obdata[trt][u] =
            poisson_get_probability_no_exceedance(
                ModelOf(trt), orups[trt][u].occurrence_rate, opoe)

\* the two tectonic region types have different models, the class field
\* holds the model of the last one, and a context of the first one got a
\* probability that the model of the last one would not give
C27_Witness ==
    /\ opc = "done"
    /\ ModelOf("A") # ModelOf("B")
    /\ otom = ModelOf("B")
    /\ obdata["A"][1] #
           poisson_get_probability_no_exceedance(
               otom, orups["A"][1].occurrence_rate, opoe)

-----------------------------------------------------------------------------
(* Claim C28 *)

\* the contexts folded by the iterations of the loop, one after the other
FoldedCtxs == Flatten([n \in 1..Len(pfolded) |-> pfolded[n].ctxs])

\* the id of the source whose rupture produced the context
SourceOf(ctx) == ctx.rup_id \div 10

\* the contexts of a list which a source produced
CtxsOf(ctxs, id) == SelectSeq(ctxs, LAMBDA ctx : SourceOf(ctx) = id)

\* make() returned for a group of independent sources
MadeIndep == ppc = "done" /\ ~pcfg.src_mutex

\* C28: after PmapMaker.make on a group of independent sources every
\* context, the retained ones included, carries as src_id the id of the
\* source whose rupture produced it, and the calc_times row of each source
\* id counts only the contexts and sites of that source, in few-sites mode
\* too
C28_SrcIdPerSource ==
    MadeIndep =>
        /\ \A n \in 1..Len(FoldedCtxs) :
              FoldedCtxs[n].src_id = SourceOf(FoldedCtxs[n])
        /\ \A n \in 1..Len(rupdata) : rupdata[n].src_id = SourceOf(rupdata[n])
        /\ \A id \in DOMAIN calc_times :
              calc_times[id] = <<Len(CtxsOf(FoldedCtxs, id)),
                                 sum_sites(CtxsOf(FoldedCtxs, id))>>

\* what holds instead: the same when there are many sites; in few-sites
\* mode the whole group is one block, every context carries the id of the
\* first source of the group and the row of that id counts them all
C28_SrcIdPerBlock ==
    /\ (MadeIndep /\ ~pcfg.fewsites) =>
          /\ \A n \in 1..Len(FoldedCtxs) :
                FoldedCtxs[n].src_id = SourceOf(FoldedCtxs[n])
          /\ rupdata = <<>>
          /\ \A id \in DOMAIN calc_times :
                calc_times[id] = <<Len(CtxsOf(FoldedCtxs, id)),
                                   sum_sites(CtxsOf(FoldedCtxs, id))>>
    /\ (MadeIndep /\ pcfg.fewsites) =>
          /\ \A n \in 1..Len(FoldedCtxs) : FoldedCtxs[n].src_id = psrcs[1].id
          /\ rupdata = FoldedCtxs
          /\ calc_times = (psrcs[1].id :>
                              <<Len(FoldedCtxs), sum_sites(FoldedCtxs)>>)

-----------------------------------------------------------------------------
(* Claim C29 *)

\* the survival function of the truncated normal at a level: 1 at or below
\* the lower truncation level, 0 above the upper one
Survival(x) ==
    IF x <= 0 THEN ROne
    ELSE IF x > 2 * btn.n_epsilons THEN RZero
    ELSE Rat(CdfDen - (IF x = 2 * btn.n_epsilons THEN CdfDen ELSE btn.cdf[x]),
             CdfDen)

\* the probability mass of the epsilon band e (from 0)
BandMass(e) ==
    Rat((IF e = btn.n_epsilons - 1 THEN CdfDen ELSE btn.cdf[2 * e + 2])
           - (IF e = 0 THEN 0 ELSE btn.cdf[2 * e]), CdfDen)

\* C29: for every rupture and standardized level the contributions of
\* _disagg_eps for e = 0..E-1 sum to the survival function of the truncated
\* normal at the level, and each contribution lies between 0 and the
\* probability mass of its band
C29_EpsBandsSum ==
    bpc = "done" =>
        \A u \in 1..Len(blvls) :
            /\ RSum([k \in 1..btn.n_epsilons |-> bres[k - 1][u]])
                  = Survival(blvls[u])
            /\ \A e \in 0..(btn.n_epsilons - 1) :
                  /\ RLe(RZero, bres[e][u])
                  /\ RLe(bres[e][u], BandMass(e))

\* with two bands, a level inside the first band: the first band
\* contributes a part of its mass and the second one all of it
C29_Witness ==
    /\ bpc = "done" /\ btn.n_epsilons = 2 /\ blvls[1] = 1
    /\ bres[0][1] # RZero /\ bres[0][1] # BandMass(0)
    /\ bres[1][1] = BandMass(1)

-----------------------------------------------------------------------------
(* Claim C30 *)

\* the configuration of the maker with collapsing disabled
NoCollapse(pm) == [pm EXCEPT !.cmaker.collapse_level = 0]

\* the map of make() on the group of the state, under the configuration pm,
\* from the unit i of the loop on
RECURSIVE MakeFrom(_, _, _)
MakeFrom(pm, i, self_pmap) ==
    IF pm.src_mutex
    THEN IF i > Len(srcfilter_filter(psrcs)) THEN self_pmap
         ELSE MakeFrom(pm, i + 1,
                  _make_src_mutex(pm, srcfilter_filter(psrcs)[i].src,
                                  srcfilter_filter(psrcs)[i].sites,
                                  self_pmap).pmap)
    ELSE IF i > Len(srcs_sites(pm, psrcs))
         THEN IF pm.rup_indep THEN invert(self_pmap) ELSE self_pmap
         ELSE MakeFrom(pm, i + 1,
                  _make_src_indep(pm, srcs_sites(pm, psrcs)[i].srcs,
                                  srcs_sites(pm, psrcs)[i].sites,
                                  self_pmap).pmap)

\* C30: a group with mutually exclusive ruptures is never collapsed. For
\* such a group no unit of work folds fewer contexts than were built, and
\* the map returned by make() with a collapse level above 1 equals the map
\* returned with collapsing disabled.
C30_MutexNeverCollapsed ==
    (ppc = "done" /\ ~pcfg.rup_indep) =>
        /\ \A n \in 1..Len(pfolded) : Len(pfolded[n].ctxs) = Len(pmade[n])
        /\ presult = MakeFrom(NoCollapse(pcfg), 1, EmptyPmap)

\* what the code does: the contexts of a group with mutually exclusive
\* ruptures are collapsed like those of any other group, every unit folding
\* collapse_the_ctxs of the contexts it built when the level is above 1
C30_MutexCollapsedLikeIndep ==
    (ppc = "done" /\ ~pcfg.rup_indep) =>
        /\ \A n \in 1..Len(pfolded) :
              Len(pfolded[n].ctxs)
                 = Len(IF pcfg.cmaker.collapse_level > 1
                       THEN collapse_the_ctxs(pcfg.cmaker, pmade[n])
                       ELSE pmade[n])
        /\ presult = MakeFrom(pcfg, 1, EmptyPmap)

====
